---- MODULE Spec2Model ----
(***************************************************************************)
(* A model of the chat-provider bridge: the Anthropic adapter's request    *)
(* normalization, the retrying HTTP transport, the Antigravity JSON-schema  *)
(* sanitizer, the Anthropic SSE event handler and the adapters' streamChat. *)
(* Each component has its own specification; the variables of the other     *)
(* components stay at their idle values.                                    *)
(***************************************************************************)
EXTENDS Integers, Sequences, FiniteSets, TLC

VARIABLES
    \* ensureAlternatingRoles
    messages,       \* the converted wire messages handed to the normalization
    result,         \* its local `result` array
    msgIdx,         \* position of the for-of loop in `messages` (1-based)
    normPc,         \* "entry" | "loop" | "done"
    \* fetchWithRetry
    retryConfig,    \* the caller's retryConfig.maxRetries (None when absent)
    maxRetries,     \* the resolved retry budget
    attempt,        \* the local `attempt`
    lastResponse,   \* the local `lastResponse` (None or <<response>>)
    fetchPc,        \* "idle" | "loop" | "fetching" | "waiting" | "returned" | "threw"
    fetchResult,    \* the response returned to the caller (None or <<response>>)
    fetchError,     \* the error thrown to the caller (None or <<error>>)
    replies,        \* history: what the server answered to each request, in order
    requests,       \* history: number of fetch() calls issued
    waits,          \* history: number of backoff delays awaited
    \* normalizeTools: one function declaration's parameter schema
    schemaIn,       \* decl.parametersJsonSchema
    schemaOut,      \* the result of cleanJsonSchemaForAntigravity (None or <<schema>>)
    toolParams,     \* the `parameters` sent to the backend (None or <<schema>>)
    schemaPc,       \* "input" | "cleaned" | "normalized"
    \* AnthropicProvider.parseSSEStream
    currentToolCall,          \* None or <<[id, name, inputJson]>>
    pendingThinking,          \* None or <<[thinking, signature]>>
    pendingRedactedThinking,  \* None or <<[data]>>
    currentServerToolUse,     \* None or <<[id, name, inputJson]>>
    currentTextBlock,         \* None or <<[text, hasCitations]>>
    pendingWebSearchResult,   \* None or <<block>>
    parts,          \* the response parts yielded so far, in order
    ssePc,          \* "reading" | "done" | "failed"
    nEvents,        \* history: number of data: lines handled
    nextIndex,      \* the server: index of the next content block
    curBlock,       \* the server: the block being streamed, with its history
    \* one chat request
    adapter,        \* "anthropic" | "antigravity"
    chatPc,         \* where streamChat stands
    cancelRequested,   \* token.isCancellationRequested
    aborted,        \* abortController.signal.aborted
    listenerDisposed,  \* cancellationListener.dispose() has run
    pendingLines,   \* the lines of the current chunk not yet handled
    chatError,      \* None or <<the error thrown to the consumer>>
    chunks,         \* number of chunks read
    cancelPoint,    \* history: where streamChat stood when the token fired
    partsAtCancel,  \* history: number of parts yielded when the token fired
    \* GoogleAntigravityProvider.streamAntigravitySse
    wire,           \* the server: the symbols of the response body not yet delivered
    buffer,         \* the decoded text not yet split into lines
    dataLines,      \* the data: payloads of the event being collected
    decPc,          \* where the decoder stands
    decEvents,      \* the events yielded so far, in order
    abortSet,       \* abortSignal.aborted
    eventsAtAbort,  \* history: number of events yielded when the signal was set
    wireIn,         \* history: the whole response body the server sends
    \* the server interleaving the events of several tool-use blocks
    openBlocks,     \* the indices of the blocks started and not yet stopped
    startedBlocks,  \* the indices of the blocks started
    partSources,    \* history: for each yielded part, the index of the event that produced it
    \* the request an adapter builds before its first network call
    reqAdapter,     \* "anthropic" | "antigravity"
    reqIn,          \* the model configuration and the caller's options
    reqTools,       \* the converted tool list, None for undefined
    toolChoice,     \* the resolved tool choice, None for undefined
    reqBody,        \* the request body, None until built
    reqPc,          \* position inside streamChat
    reqError,       \* the error streamChat threw, None if none
    reqSent,        \* number of network requests issued
    choiceRuns,     \* history: number of tool-choice resolutions
    choiceSaw,      \* history: the tool list the resolution inspected
    \* normalizeClaudeThinkingToolHistory over a converted conversation
    contents,       \* the Content[] being normalized in place
    contentsIn,     \* history: the conversation as it was passed in
    histPos,        \* index of the content the loop handles next
    histPc,         \* "idle" | "loop" | "done"
    \* AnthropicProvider.convertMessages and the body built from its result
    rawMessages,    \* the request messages handed over by the editor
    convertedMsgs,  \* the wire messages collected by the loop (const converted)
    system,         \* the system value of convertMessages, None for undefined
    convPos,        \* index of the raw message the loop handles next
    convPc,         \* "idle" | "loop" | "converted" | "built"
    convBody,       \* the request body, None until built
    \* the line framing of AnthropicProvider.parseSSEStream
    linWire,        \* the server: the symbols of the response body not yet delivered
    linWireIn,      \* history: the whole response body the server sends
    linBuffer,      \* the decoded text not yet split into lines
    linPc,          \* where the parser stands
    linEvents,      \* the JSON events handed to the event handlers, in order
    linCancelled,   \* token.isCancellationRequested
    \* the waits of fetchWithRetry while the server keeps answering retryably
    boConfig,       \* the resolved retry configuration
    boAttempt,      \* let attempt = 0; attempt++
    boDelayMs,      \* the delay computed for the last retry, None before the first
    boDelayAttempt, \* history: the attempt the last delay was computed for
    \* the name of one tool declaration on its way into a wire request
    tnAdapter,      \* "anthropic" | "antigravity"
    tnName,         \* tool.name / decl.name as the caller gave it
    tnWire,         \* the name placed in the request, None before conversion
    \* extractContent on one message, part by part
    ccParts,        \* msg.content
    ccPos,          \* the number of parts already handled
    ccBlocks,       \* const blocks: AnthropicContentBlock[]
    ccPc,           \* "loop" | "returned" | "threw" | "idle"
    ccBefore,       \* history: blocks as they were before the last part handled
    \* one call of isFeatureSupported(featureId, provider, model)
    ftFeature,      \* FEATURES[featureId]: None for an unknown id, else <<feature>>
    ftModel,        \* the model: getBaseModelId(model.id) and model.family
    ftBaseUrl,      \* provider.baseUrl
    ftResult,       \* the value returned, None before the call
    \* AnthropicProvider.getAvailableModels against a server that answers the
    \* k-th request with the k-th page of lmPages
    lmPages,        \* the answers of the server, in the order it gives them
    lmAfterId,      \* let afterId: string | undefined
    lmAllModels,    \* const allModels: ModelConfig[]
    lmRequests,     \* history: the after_id of every request sent, None if absent
    lmPc,           \* "loop" | "awaiting" | "returned" | "threw" | "idle"
    \* UnifyChatService handling one chat request or one token-count request
    cfgEndpoints,   \* configStore.endpoints: provider name -> its stored apiKey field
    cfgSecrets,     \* the secret store: the references that hold a key
    cfgStoreInSettings, \* configStore.storeApiKeyInSettings
    cfgClients,     \* this.clients: the provider names with a cached client
    cfgRequest,     \* "chat" | "count"
    cfgProvider,    \* the provider named by the model id, None if not found
    cfgPc,          \* the position of the handler
    \* two chat requests of one provider in flight at the same time
    cqClients,      \* this.clients: the provider names with a cached client
    cqWire,         \* per request: the events its response stream carries
    cqPos,          \* per request: the number of events already handled
    cqPc,           \* per request: "start" | "streaming"
    cqLocals,       \* per request: the locals of its parseSSEStream call
    \* the cancellation listener of one streamChat call
    lsAdapter,      \* "anthropic" | "antigravity"
    lsBuild,        \* "ok" | "throws": whether building the request throws
    lsCancelledAtEntry, \* token.isCancellationRequested when the call starts
    lsReply,        \* "ok" | "httpError" | "rejected": the answer to the fetch
    lsListeners,    \* listeners registered on the token and not yet disposed
    lsYielded,      \* the number of parts yielded
    lsPc,           \* the position of the generator
    \* the chunks of one Copilot response stream
    ixStream,       \* per chunk: the index of each of its tool-call deltas
    ixPos,          \* the number of chunks already accumulated
    ixNormalized,   \* per accumulated chunk: the indices handed downstream
    \* the Vertex AI auth provider and the getCredential calls in flight
    vxConfig,       \* this.config: None or Some(configuration)
    vxCachedToken,  \* this.cachedToken: None or Some(token)
    vxGoogleAuth,   \* this.googleAuth: None or Some(id of its configuration)
    vxCalls,        \* per getCredential call: position, client, result
    vxConfigure,    \* the position of configure() and its newConfig
    vxRevoke,       \* the position of revoke()
    vxCompleted,    \* the number of configurations applied or revoked so far
    \* one call of cleanJsonSchemaForAntigravity, one step per call of clean
    rfSchema,       \* the root schema without its definitions
    rfStores,       \* rootDefs and rootDefinitions
    rfStack,        \* the calls of clean in progress, outermost first
    rfCleaned,      \* None, or Some(what the call of clean just left returned)
    rfPc            \* "idle", "running", "returned", "overflow"

normVars == <<messages, result, msgIdx, normPc>>
retryVars == <<retryConfig, maxRetries, attempt, lastResponse, fetchPc, fetchResult,
               fetchError, replies, requests, waits>>
schemaVars == <<schemaIn, schemaOut, toolParams, schemaPc>>
sseVars == <<currentToolCall, pendingThinking, pendingRedactedThinking,
             currentServerToolUse, currentTextBlock, pendingWebSearchResult,
             parts, ssePc, nEvents, nextIndex, curBlock>>
chatVars == <<adapter, chatPc, cancelRequested, aborted, listenerDisposed, pendingLines,
              chatError, chunks, cancelPoint, partsAtCancel>>
decVars == <<wire, buffer, dataLines, decPc, decEvents, abortSet, eventsAtAbort, wireIn>>
accVars == <<openBlocks, startedBlocks, partSources>>
reqVars == <<reqAdapter, reqIn, reqTools, toolChoice, reqBody, reqPc, reqError, reqSent, choiceRuns, choiceSaw>>
histVars == <<contents, contentsIn, histPos, histPc>>
convVars == <<rawMessages, convertedMsgs, system, convPos, convPc, convBody>>
linVars == <<linWire, linWireIn, linBuffer, linPc, linEvents, linCancelled>>
boVars == <<boConfig, boAttempt, boDelayMs, boDelayAttempt>>
tnVars == <<tnAdapter, tnName, tnWire>>
ccVars == <<ccParts, ccPos, ccBlocks, ccPc, ccBefore>>
ftVars == <<ftFeature, ftModel, ftBaseUrl, ftResult>>
lmVars == <<lmPages, lmAfterId, lmAllModels, lmRequests, lmPc>>
cfgVars == <<cfgEndpoints, cfgSecrets, cfgStoreInSettings, cfgClients, cfgRequest, cfgProvider, cfgPc>>
cqVars == <<cqClients, cqWire, cqPos, cqPc, cqLocals>>
lsVars == <<lsAdapter, lsBuild, lsCancelledAtEntry, lsReply, lsListeners, lsYielded, lsPc>>
ixVars == <<ixStream, ixPos, ixNormalized>>
vxVars == <<vxConfig, vxCachedToken, vxGoogleAuth, vxCalls, vxConfigure, vxRevoke, vxCompleted>>
rfVars == <<rfSchema, rfStores, rfStack, rfCleaned, rfPc>>
vars == <<normVars, retryVars, schemaVars, sseVars, chatVars, decVars, accVars, reqVars, histVars, convVars, linVars, boVars, tnVars, ccVars, ftVars, lmVars, cfgVars, cqVars, lsVars, ixVars, vxVars, rfVars>>

\* What each component's actions leave alone.
notNormVars == <<retryVars, schemaVars, sseVars, chatVars, decVars, accVars, reqVars, histVars, convVars, linVars, boVars, tnVars, ccVars, ftVars, lmVars, cfgVars, cqVars, lsVars, ixVars, vxVars, rfVars>>
notRetryVars == <<normVars, schemaVars, sseVars, chatVars, decVars, accVars, reqVars, histVars, convVars, linVars, boVars, tnVars, ccVars, ftVars, lmVars, cfgVars, cqVars, lsVars, ixVars, vxVars, rfVars>>
notSchemaVars == <<normVars, retryVars, sseVars, chatVars, decVars, accVars, reqVars, histVars, convVars, linVars, boVars, tnVars, ccVars, ftVars, lmVars, cfgVars, cqVars, lsVars, ixVars, vxVars, rfVars>>
notSseVars == <<normVars, retryVars, schemaVars, chatVars, decVars, accVars, reqVars, histVars, convVars, linVars, boVars, tnVars, ccVars, ftVars, lmVars, cfgVars, cqVars, lsVars, ixVars, vxVars, rfVars>>
notChatVars == <<normVars, schemaVars, decVars, accVars, reqVars, histVars, convVars, linVars, boVars, tnVars, ccVars, ftVars, lmVars, cfgVars, cqVars, lsVars, ixVars, vxVars, rfVars>>
notDecVars == <<normVars, retryVars, schemaVars, sseVars, chatVars, accVars, reqVars, histVars, convVars, linVars, boVars, tnVars, ccVars, ftVars, lmVars, cfgVars, cqVars, lsVars, ixVars, vxVars, rfVars>>
notAccVars == <<normVars, retryVars, schemaVars, sseVars, chatVars, decVars, reqVars, histVars, convVars, linVars, boVars, tnVars, ccVars, ftVars, lmVars, cfgVars, cqVars, lsVars, ixVars, vxVars, rfVars>>
notAccSseVars == <<normVars, retryVars, schemaVars, chatVars, decVars, reqVars, histVars, convVars, linVars, boVars, tnVars, ccVars, ftVars, lmVars, cfgVars, cqVars, lsVars, ixVars, vxVars, rfVars>>
notReqVars == <<normVars, retryVars, schemaVars, sseVars, chatVars, decVars, accVars, histVars, convVars, linVars, boVars, tnVars, ccVars, ftVars, lmVars, cfgVars, cqVars, lsVars, ixVars, vxVars, rfVars>>
notHistVars == <<normVars, retryVars, schemaVars, sseVars, chatVars, decVars, accVars, reqVars, convVars, linVars, boVars, tnVars, ccVars, ftVars, lmVars, cfgVars, cqVars, lsVars, ixVars, vxVars, rfVars>>
notConvVars == <<normVars, retryVars, schemaVars, sseVars, chatVars, decVars, accVars, reqVars, histVars, linVars, boVars, tnVars, ccVars, ftVars, lmVars, cfgVars, cqVars, lsVars, ixVars, vxVars, rfVars>>
notLinVars == <<normVars, retryVars, schemaVars, sseVars, chatVars, decVars, accVars, reqVars, histVars, convVars, boVars, tnVars, ccVars, ftVars, lmVars, cfgVars, cqVars, lsVars, ixVars, vxVars, rfVars>>
notBoVars == <<normVars, retryVars, schemaVars, sseVars, chatVars, decVars, accVars, reqVars, histVars, convVars, linVars, tnVars, ccVars, ftVars, lmVars, cfgVars, cqVars, lsVars, ixVars, vxVars, rfVars>>
notTnVars == <<normVars, retryVars, schemaVars, sseVars, chatVars, decVars, accVars, reqVars, histVars, convVars, linVars, boVars, ccVars, ftVars, lmVars, cfgVars, cqVars, lsVars, ixVars, vxVars, rfVars>>
notCcVars == <<normVars, retryVars, schemaVars, sseVars, chatVars, decVars, accVars, reqVars, histVars, convVars, linVars, boVars, tnVars, ftVars, lmVars, cfgVars, cqVars, lsVars, ixVars, vxVars, rfVars>>
notFtVars == <<normVars, retryVars, schemaVars, sseVars, chatVars, decVars, accVars, reqVars, histVars, convVars, linVars, boVars, tnVars, ccVars, lmVars, cfgVars, cqVars, lsVars, ixVars, vxVars, rfVars>>
notLmVars == <<normVars, retryVars, schemaVars, sseVars, chatVars, decVars, accVars, reqVars, histVars, convVars, linVars, boVars, tnVars, ccVars, ftVars, cfgVars, cqVars, lsVars, ixVars, vxVars, rfVars>>
notCfgVars == <<normVars, retryVars, schemaVars, sseVars, chatVars, decVars, accVars, reqVars, histVars, convVars, linVars, boVars, tnVars, ccVars, ftVars, lmVars, cqVars, lsVars, ixVars, vxVars, rfVars>>
notCqVars == <<normVars, retryVars, schemaVars, sseVars, chatVars, decVars, accVars, reqVars, histVars, convVars, linVars, boVars, tnVars, ccVars, ftVars, lmVars, cfgVars, lsVars, ixVars, vxVars, rfVars>>
notLsVars == <<normVars, retryVars, schemaVars, sseVars, chatVars, decVars, accVars, reqVars, histVars, convVars, linVars, boVars, tnVars, ccVars, ftVars, lmVars, cfgVars, cqVars, ixVars, vxVars, rfVars>>
notIxVars == <<normVars, retryVars, schemaVars, sseVars, chatVars, decVars, accVars, reqVars, histVars, convVars, linVars, boVars, tnVars, ccVars, ftVars, lmVars, cfgVars, cqVars, lsVars, vxVars, rfVars>>
notVxVars == <<normVars, retryVars, schemaVars, sseVars, chatVars, decVars, accVars, reqVars, histVars, convVars, linVars, boVars, tnVars, ccVars, ftVars, lmVars, cfgVars, cqVars, lsVars, ixVars, rfVars>>
notRfVars == <<normVars, retryVars, schemaVars, sseVars, chatVars, decVars, accVars, reqVars, histVars, convVars, linVars, boVars, tnVars, ccVars, ftVars, lmVars, cfgVars, cqVars, lsVars, ixVars, vxVars>>

\* An optional value is a sequence of length 0 or 1.
None == <<>>
Some(x) == <<x>>

\* Bounds of the explored inputs.
MaxMsgs == 4
MaxRetriesCfg == 2
MaxVaried == 2
MaxEvents == 7
MaxChunks == 2
MaxLines == 2
MaxAgParts == 2
MaxWireLines == 3
MaxIndex == 1

\* the most tools a caller passes with a request
MaxTools == 2

\* the most contents of a conversation handed to the thinking-order normalization,
\* and the most parts of one content
MaxContents == 2
MaxHistParts == 3

\* the most raw messages of a request handed to convertMessages
MaxRaw == 3

\* the most retries whose waits are computed, and the number of values
\* Math.random() is drawn from
MaxBackoffAttempts == 4
JitterGrid == 4
MaxNameHead == 2
MaxCcParts == 3
MaxPages == 3
MaxCqEvents == 3
MaxLsParts == 2
MaxUpstreamIndex == 2
MaxChunkCalls == 2

\* getCredential calls in flight on one Vertex AI auth provider
MaxVxCalls == 2

\* configurations applied or revoked in one run
MaxVxConfigs == 2

\* calls of clean the engine's call stack holds
MaxStackDepth == 9
MAX_TOOL_NAME_LENGTH == 64

(***************************************************************************)
(* Request normalization: AnthropicProvider.ensureAlternatingRoles          *)
(***************************************************************************)
Roles == {"user", "assistant"}

PartNames == <<"m1", "m2", "m3", "m4", "m5", "m6">>

TextBlock(t) == [type |-> "text", text |-> t]

\* The i-th input message carries one text block named after its position.
InputMessage(roleOf, i) == [role |-> roleOf[i], content |-> <<TextBlock(PartNames[i])>>]

InputMessages ==
    UNION {{[i \in 1..n |-> InputMessage(roleOf, i)] : roleOf \in [1..n -> Roles]}
           : n \in 0..MaxMsgs}

LastRole(res) == IF Len(res) > 0 THEN Some(res[Len(res)].role) ELSE None

\* Mutant: every message is pushed, none is merged.
MergeOrPushNoMerge(res, msg) == Append(res, msg)

\* Mutant: a merge keeps the earlier message and drops the parts of the later.
MergeOrPushDropParts(res, msg) ==
    IF LastRole(res) = Some(msg.role)
    THEN res
    ELSE Append(res, [role |-> msg.role, content |-> msg.content])

\* One iteration of the for-of loop.
MergeOrPush(res, msg) ==
    IF LastRole(res) = Some(msg.role)
    THEN [res EXCEPT ![Len(res)].content = res[Len(res)].content \o msg.content]
    ELSE Append(res, [role |-> msg.role, content |-> msg.content])

SyntheticUser == [role |-> "user", content |-> <<TextBlock("...")>>]

\* The trailing "first message must be from user" fix-up.
EnsureFirstUser(res) ==
    IF Len(res) > 0 /\ res[1].role # "user"
    THEN <<SyntheticUser>> \o res
    ELSE res

NormIdle ==
    /\ messages = <<>>
    /\ result = <<>>
    /\ msgIdx = 0
    /\ normPc = "idle"

NormInit ==
    /\ messages \in InputMessages
    /\ result = <<>>
    /\ msgIdx = 1
    /\ normPc = "entry"

\* if (messages.length === 0) return []; const result = [];
NormEntry ==
    /\ normPc = "entry"
    /\ result' = <<>>
    /\ normPc' = IF Len(messages) = 0 THEN "done" ELSE "loop"
    /\ UNCHANGED <<messages, msgIdx, notNormVars>>

\* for (const msg of messages) { merge or push }
NormLoopStep ==
    /\ normPc = "loop"
    /\ msgIdx <= Len(messages)
    /\ result' = MergeOrPush(result, messages[msgIdx])
    /\ msgIdx' = msgIdx + 1
    /\ UNCHANGED <<messages, normPc, notNormVars>>

\* after the loop: unshift the synthetic user message if needed; return result
NormFinish ==
    /\ normPc = "loop"
    /\ msgIdx > Len(messages)
    /\ result' = EnsureFirstUser(result)
    /\ normPc' = "done"
    /\ UNCHANGED <<messages, msgIdx, notNormVars>>

NormNext == NormEntry \/ NormLoopStep \/ NormFinish

(***************************************************************************)
(* Retrying transport: fetchWithRetry                                       *)
(***************************************************************************)
RETRYABLE_STATUS_CODES == {429, 500, 502, 503, 504}

DEFAULT_maxRetries == 10

\* Mutant: every error status is retried.
IsRetryableStatusCodeAnyError(status) == status >= 400

isRetryableStatusCode(status) == status \in RETRYABLE_STATUS_CODES

ResponseOk(status) == status >= 200 /\ status <= 299

\* What the server may answer: an HTTP status, or no response at all.
Statuses == {200, 204, 404, 429, 500, 502, 503, 504}
Failures == {"network", "abort"}
TailStatuses == {200, 503}

Response(status, n) == [kind |-> "response", status |-> status, seq |-> n]
Failure(err, n) == [kind |-> "failure", error |-> err, seq |-> n]

\* The answers explored for the n-th request: every status and failure for the
\* first MaxVaried requests, one final and one retryable status afterwards.
ServerAnswers(n) ==
    IF n <= MaxVaried
    THEN {Response(s, n) : s \in Statuses} \cup {Failure(e, n) : e \in Failures}
    ELSE {Response(s, n) : s \in TailStatuses} \cup {Failure("network", n)}

\* retryConfig?.maxRetries: absent, or a caller-chosen budget
RetryConfigs == {None} \cup {Some(n) : n \in 0..MaxRetriesCfg}

\* retryConfig?.maxRetries ?? DEFAULT_RETRY_CONFIG.maxRetries
ResolveMaxRetries(cfg) == IF cfg = None THEN DEFAULT_maxRetries ELSE cfg[1]

RetryIdle ==
    /\ retryConfig = None
    /\ maxRetries = 0
    /\ attempt = 0
    /\ lastResponse = None
    /\ fetchPc = "idle"
    /\ fetchResult = None
    /\ fetchError = None
    /\ replies = <<>>
    /\ requests = 0
    /\ waits = 0

\* fetchWithRetry(url, options): resolve the configuration, attempt = 0
FetchCall(cfg) ==
    /\ fetchPc = "idle"
    /\ retryConfig' = cfg
    /\ maxRetries' = ResolveMaxRetries(cfg)
    /\ attempt' = 0
    /\ lastResponse' = None
    /\ fetchPc' = "loop"
    /\ UNCHANGED <<notRetryVars, fetchResult, fetchError, replies, requests, waits>>

\* while (attempt <= maxRetries) { await fetch(...)
FetchSend ==
    /\ fetchPc = "loop"
    /\ attempt <= maxRetries
    /\ requests' = requests + 1
    /\ fetchPc' = "fetching"
    /\ UNCHANGED <<notRetryVars, retryConfig, maxRetries, attempt, lastResponse, fetchResult, fetchError,
                   replies, waits>>

\* the loop ends: return lastResponse!
FetchExhausted ==
    /\ fetchPc = "loop"
    /\ attempt > maxRetries
    /\ fetchResult' = lastResponse
    /\ fetchPc' = "returned"
    /\ UNCHANGED <<notRetryVars, retryConfig, maxRetries, attempt, lastResponse, fetchError, replies,
                   requests, waits>>

\* Mutant: a wait is performed after every retryable reply, the last included.
ShouldWaitAlways(att, max) == TRUE

\* if (attempt < maxRetries) { ... await delay(delayMs) }
ShouldWait(att, max) == att < max

\* fetch resolved with a response
FetchResponse ==
    /\ fetchPc = "fetching"
    /\ \E r \in ServerAnswers(requests) :
        /\ r.kind = "response"
        /\ replies' = Append(replies, r)
        /\ IF ResponseOk(r.status) \/ ~isRetryableStatusCode(r.status)
           THEN /\ fetchResult' = Some(r)
                /\ fetchPc' = "returned"
                /\ UNCHANGED <<attempt, lastResponse, waits>>
           ELSE /\ lastResponse' = Some(r)
                /\ IF ShouldWait(attempt, maxRetries)
                   THEN /\ waits' = waits + 1
                        /\ fetchPc' = "waiting"
                        /\ UNCHANGED attempt
                   ELSE /\ attempt' = attempt + 1
                        /\ fetchPc' = "loop"
                        /\ UNCHANGED waits
                /\ UNCHANGED fetchResult
    /\ UNCHANGED <<notRetryVars, retryConfig, maxRetries, fetchError, requests>>

\* Mutant: a failed attempt is swallowed and counted as a retry.
OnFetchFailureRetry(err) ==
    /\ attempt' = attempt + 1
    /\ fetchPc' = "loop"
    /\ UNCHANGED fetchError

\* catch (error) { throw error; }
OnFetchFailure(err) ==
    /\ fetchError' = Some(err)
    /\ fetchPc' = "threw"
    /\ UNCHANGED attempt

\* fetch rejected: network error or abort
FetchFailure ==
    /\ fetchPc = "fetching"
    /\ \E r \in ServerAnswers(requests) :
        /\ r.kind = "failure"
        /\ replies' = Append(replies, r)
        /\ OnFetchFailure(r.error)
    /\ UNCHANGED <<notRetryVars, retryConfig, maxRetries, lastResponse, fetchResult, requests, waits>>

\* the delay elapsed: attempt++
FetchDelayElapsed ==
    /\ fetchPc = "waiting"
    /\ attempt' = attempt + 1
    /\ fetchPc' = "loop"
    /\ UNCHANGED <<notRetryVars, retryConfig, maxRetries, lastResponse, fetchResult, fetchError, replies,
                   requests, waits>>

FetchSteps ==
    FetchSend \/ FetchExhausted \/ FetchResponse \/ FetchFailure \/ FetchDelayElapsed

\* A caller invoking the transport directly with some retry configuration.
RetryCall == \E cfg \in RetryConfigs : FetchCall(cfg)

RetryNext == RetryCall \/ FetchSteps

(***************************************************************************)
(* Schema sanitizer: cleanJsonSchemaForAntigravity                          *)
(*                                                                          *)
(* A JSON value is a tagged record: an object [t |-> "obj", v |-> f] with f *)
(* a function from keys to JSON values, an array [t |-> "arr", v |-> seq],  *)
(* a string [t |-> "str", v |-> s], a text (a string made of paragraphs     *)
(* joined by blank lines) [t |-> "text", v |-> <<paragraphs>>], or a        *)
(* boolean [t |-> "bool", v |-> b].                                         *)
(***************************************************************************)
Obj(f) == [t |-> "obj", v |-> f]
Arr(q) == [t |-> "arr", v |-> q]
Str(x) == [t |-> "str", v |-> x]
Text(ps) == [t |-> "text", v |-> ps]
Bool(b) == [t |-> "bool", v |-> b]

EmptyObj == Obj([k \in {} |-> Bool(FALSE)])

isRecord(x) == x.t = "obj"
isArray(x) == x.t = "arr"
isString(x) == x.t \in {"str", "text"}

\* typeof x === 'string' && x.trim()
isNonBlankString(x) ==
    \/ x.t = "str" /\ x.v # ""
    \/ x.t = "text" /\ Len(x.v) > 0

Paragraphs(x) == IF x.t = "text" THEN x.v ELSE <<x.v>>

Has(o, k) == k \in DOMAIN o
Del(o, k) == [x \in DOMAIN o \ {k} |-> o[x]]
Put(o, k, val) == [x \in DOMAIN o \cup {k} |-> IF x = k THEN val ELSE o[x]]
\* { ...a, ...b }
Spread(a, b) == [x \in DOMAIN a \cup DOMAIN b |-> IF x \in DOMAIN b THEN b[x] ELSE a[x]]

RECURSIVE Dedup(_)
\* the insertion order of a Set built from an array
Dedup(q) ==
    IF Len(q) = 0 THEN <<>>
    ELSE LET front == Dedup(SubSeq(q, 1, Len(q) - 1))
             last == q[Len(q)]
         IN  IF \E i \in 1..Len(front) : front[i] = last THEN front
             ELSE Append(front, last)

Range(q) == {q[i] : i \in 1..Len(q)}

\* the non-empty string items of an array, as names
IsNameItem(x) == x.t = "str" /\ x.v # ""
NameItems(arr) == SelectSeq(arr.v, IsNameItem)

\* appendHintToDescription(target, hint), the hint given as its paragraphs
appendHintToDescription(target, hint) ==
    IF Len(hint) = 0 THEN target
    ELSE IF Has(target, "description") /\ isNonBlankString(target["description"])
         THEN Put(target, "description",
                  Text(Paragraphs(target["description"]) \o hint))
         ELSE Put(target, "description", Text(hint))

mergeRequired(base, incoming) ==
    LET baseIsArr == Has(base, "required") /\ isArray(base["required"])
        incIsArr == Has(incoming, "required") /\ isArray(incoming["required"])
    IN  IF ~baseIsArr /\ ~incIsArr THEN base
        ELSE Put(base, "required",
                 Arr(Dedup((IF baseIsArr THEN NameItems(base["required"]) ELSE <<>>)
                           \o (IF incIsArr THEN NameItems(incoming["required"]) ELSE <<>>))))

mergeProperties(base, incoming) ==
    IF ~(Has(incoming, "properties") /\ isRecord(incoming["properties"])) THEN base
    ELSE IF ~(Has(base, "properties") /\ isRecord(base["properties"]))
         THEN Put(base, "properties", incoming["properties"])
         ELSE Put(base, "properties",
                  Obj(Spread(base["properties"].v, incoming["properties"].v)))

mergeDescription(merged, incoming) ==
    IF isNonBlankString(incoming["description"])
    THEN appendHintToDescription(merged, Paragraphs(incoming["description"]))
    ELSE merged

MergedSpecially == {"properties", "required", "description"}

\* mergeSchemas(base, incoming): properties and required are united, the
\* descriptions appended, every other key of `incoming` added unless present.
mergeSchemas(base, incoming) ==
    LET m1 == IF Has(incoming, "properties") THEN mergeProperties(base, incoming) ELSE base
        m2 == IF Has(incoming, "required") THEN mergeRequired(m1, incoming) ELSE m1
        m3 == IF Has(incoming, "description") THEN mergeDescription(m2, incoming) ELSE m2
        others == (DOMAIN incoming \ MergedSpecially) \ DOMAIN m3
    IN  [x \in DOMAIN m3 \cup others |-> IF x \in others THEN incoming[x] ELSE m3[x]]

DroppedKeys ==
    {"$schema", "$id", "$defs", "definitions", "$comment", "default", "examples",
     "title", "readOnly", "writeOnly", "deprecated", "$ref"}

HintedKeys == {"additionalProperties", "patternProperties", "unevaluatedProperties"}

\* `${k}: allowed.` / `${k}: disallowed.` / `${k}: schema present (simplified).`
KeyHint(o, k) ==
    IF ~Has(o, k) THEN <<>>
    ELSE IF o[k].t = "bool"
         THEN <<k \o (IF o[k].v THEN ": allowed." ELSE ": disallowed.")>>
         ELSE IF isRecord(o[k]) THEN <<k \o ": schema present (simplified).">>
         ELSE <<>>

\* The hints of the additionalProperties-like keys (the key order of an object
\* is not modelled: the hints follow the description, in this order).
KeyHints(o) ==
    KeyHint(o, "additionalProperties") \o KeyHint(o, "patternProperties")
        \o KeyHint(o, "unevaluatedProperties")

\* first-wins union of the variants' properties (variants in order)
RECURSIVE UnionProperties(_)
UnionProperties(variants) ==
    IF Len(variants) = 0 THEN [k \in {} |-> EmptyObj]
    ELSE LET front == UnionProperties(SubSeq(variants, 1, Len(variants) - 1))
             last == variants[Len(variants)].v
         IN  IF Has(last, "properties") /\ isRecord(last["properties"])
             THEN Spread(last["properties"].v, front)
             ELSE front

VariantRequired(variant) ==
    IF Has(variant.v, "required") /\ isArray(variant.v["required"])
    THEN Dedup(NameItems(variant.v["required"]))
    ELSE <<>>

\* the required names of the first variant that every later variant requires
RECURSIVE RequiredIntersection(_)
RequiredIntersection(variants) ==
    IF Len(variants) = 0 THEN <<>>
    ELSE IF Len(variants) = 1 THEN VariantRequired(variants[1])
    ELSE LET front == RequiredIntersection(SubSeq(variants, 1, Len(variants) - 1))
             lastReq == Range(VariantRequired(variants[Len(variants)]))
             Kept(x) == x \in lastReq
         IN  SelectSeq(front, Kept)

RECURSIVE clean(_, _)
RECURSIVE simplifyUnionSchemas(_, _, _, _)

\* The $ref of an object that resolves in the root's $defs / definitions.
\* defs maps a section to its entries; a string "#/section/key" is the value
\* [t |-> "ref", v |-> <<section, key>>].
RefTarget(defs, o) ==
    IF Has(o, "$ref") /\ o["$ref"].t = "ref"
       /\ o["$ref"].v[1] \in DOMAIN defs
       /\ o["$ref"].v[2] \in DOMAIN defs[o["$ref"].v[1]]
    THEN Some(defs[o["$ref"].v[1]][o["$ref"].v[2]])
    ELSE None

HasUnion(o, key) == Has(o, key) /\ isArray(o[key]) /\ Len(o[key].v) > 0

RECURSIVE MergeAll(_, _, _)
\* for (const item of allOf) { cleaned = clean(item); if record, merge }
MergeAll(defs, merged, items) ==
    IF Len(items) = 0 THEN merged
    ELSE LET cleaned == clean(defs, items[1])
         IN  MergeAll(defs,
                      IF isRecord(cleaned) THEN mergeSchemas(merged, cleaned.v) ELSE merged,
                      SubSeq(items, 2, Len(items)))

\* the tail of clean: drop or fold unsupported keys, clean the rest, prune
\* `required` against `properties`, default the items of an array type
cleanKeys(defs, o) ==
    LET kept == DOMAIN o \ (DroppedKeys \cup HintedKeys \cup {"const"})
        copied == [k \in kept |-> clean(defs, o[k])]
        withEnum == IF Has(o, "const") /\ ~(Has(copied, "enum") /\ isArray(copied["enum"]))
                    THEN Put(copied, "enum", Arr(<<clean(defs, o["const"])>>))
                    ELSE copied
        hinted == appendHintToDescription(withEnum, KeyHints(o))
        pruned ==
            IF Has(hinted, "properties") /\ isRecord(hinted["properties"])
               /\ Has(hinted, "required") /\ isArray(hinted["required"])
            THEN LET names == DOMAIN hinted["properties"].v
                     Valid(x) == x.t = "str" /\ x.v \in names
                     validRequired == SelectSeq(hinted["required"].v, Valid)
                 IN  IF Len(validRequired) > 0
                     THEN Put(hinted, "required", Arr(validRequired))
                     ELSE Del(hinted, "required")
            ELSE hinted
    IN  IF Has(pruned, "type") /\ pruned["type"] = Str("array") /\ ~Has(pruned, "items")
        THEN Put(pruned, "items", Obj([k \in {"type"} |-> Str("string")]))
        ELSE pruned

\* clean(value), with the root's defs in scope
clean(defs, value) ==
    IF isArray(value) THEN Arr([i \in DOMAIN value.v |-> clean(defs, value.v[i])])
    ELSE IF ~isRecord(value) THEN value
    ELSE LET o == value.v
             target == RefTarget(defs, o)
         IN  IF target # None
             THEN LET merged == Del(o, "$ref")
                      cleanedResolved == clean(defs, target[1])
                  IN  IF isRecord(cleanedResolved)
                      THEN clean(defs, Obj(Spread(cleanedResolved.v, merged)))
                      ELSE clean(defs, cleanedResolved)
             ELSE IF HasUnion(o, "allOf")
             THEN clean(defs, Obj(MergeAll(defs, Del(o, "allOf"), o["allOf"].v)))
             ELSE IF HasUnion(o, "anyOf")
             THEN clean(defs, Obj(simplifyUnionSchemas(defs, "anyOf", o, o["anyOf"].v)))
             ELSE IF HasUnion(o, "oneOf")
             THEN clean(defs, Obj(simplifyUnionSchemas(defs, "oneOf", o, o["oneOf"].v)))
             ELSE Obj(cleanKeys(defs, o))

simplifyUnionSchemas(defs, unionKey, schemaRecord, variants) ==
    LET stripped == Del(schemaRecord, unionKey)
        cleanedAll == [i \in DOMAIN variants |-> clean(defs, variants[i])]
        cleanedVariants == SelectSeq(cleanedAll, isRecord)
    IN  IF Len(cleanedVariants) = 0
        THEN appendHintToDescription(stripped, <<unionKey \o " present but could not be normalized">>)
        ELSE IF Len(cleanedVariants) = 1
        THEN clean(defs, Obj(mergeSchemas(stripped, cleanedVariants[1].v))).v
        ELSE LET mergedProperties == UnionProperties(cleanedVariants)
                 requiredIntersection == RequiredIntersection(cleanedVariants)
                 withProps == IF DOMAIN mergedProperties # {}
                              THEN Put(stripped, "properties", Obj(mergedProperties))
                              ELSE stripped
                 withReq == IF Len(requiredIntersection) > 0
                            THEN Put(withProps, "required", Arr(requiredIntersection))
                            ELSE withProps
             IN  appendHintToDescription(withReq, <<unionKey \o " simplified for Antigravity tool schema compatibility">>)

\* the root's $defs / definitions, by section
RootDefs(schema) ==
    IF ~isRecord(schema) THEN [k \in {} |-> EmptyObj]
    ELSE [section \in {k \in {"$defs", "definitions"} :
                          Has(schema.v, k) /\ isRecord(schema.v[k])}
            |-> schema.v[section].v]

cleanJsonSchemaForAntigravity(schema) ==
    LET cleanedRoot == clean(RootDefs(schema), schema)
    IN  IF ~isRecord(cleanedRoot) THEN cleanedRoot
        ELSE Obj(Del(Del(cleanedRoot.v, "$defs"), "definitions"))

EMPTY_TOOL_SCHEMA_PLACEHOLDER_NAME == "_placeholder"

PlaceholderProperty ==
    Obj([k \in {"type", "description"} |->
            IF k = "type" THEN Str("boolean") ELSE Str("Placeholder. Always pass true.")])

IsStr(x) == x.t = "str"

normalizeToolParametersSchemaNoPlaceholder(schema) ==
    LET out == Put(IF isRecord(schema) THEN schema.v ELSE EmptyObj.v, "type", Str("object"))
        properties == IF Has(out, "properties") /\ isRecord(out["properties"])
                      THEN out["properties"].v ELSE EmptyObj.v
        required == IF Has(out, "required") /\ isArray(out["required"])
                    THEN SelectSeq(out["required"].v, IsStr) ELSE <<>>
        withProps == Put(out, "properties", Obj(properties))
    IN  Obj(IF Len(required) > 0
            THEN Put(withProps, "required", Arr(required))
            ELSE Del(withProps, "required"))

\* normalizeToolParametersSchema(schema)
normalizeToolParametersSchema(schema) ==
    LET out == Put(IF isRecord(schema) THEN schema.v ELSE EmptyObj.v, "type", Str("object"))
        properties == IF Has(out, "properties") /\ isRecord(out["properties"])
                      THEN out["properties"].v ELSE EmptyObj.v
        required == IF Has(out, "required") /\ isArray(out["required"])
                    THEN SelectSeq(out["required"].v, IsStr) ELSE <<>>
        empty == DOMAIN properties = {}
        properties2 == IF empty
                       THEN Put(properties, EMPTY_TOOL_SCHEMA_PLACEHOLDER_NAME, PlaceholderProperty)
                       ELSE properties
        required2 == IF empty /\ Str(EMPTY_TOOL_SCHEMA_PLACEHOLDER_NAME) \notin Range(required)
                     THEN Append(required, Str(EMPTY_TOOL_SCHEMA_PLACEHOLDER_NAME))
                     ELSE required
        withProps == Put(out, "properties", Obj(properties2))
    IN  Obj(IF Len(required2) > 0
            THEN Put(withProps, "required", Arr(required2))
            ELSE Del(withProps, "required"))

\* The tool parameter schemas explored: a root object holding an anyOf or a
\* oneOf of two object variants, each declaring properties and requiring some
\* of the properties it declares.
PropNames == {"a", "b", "title"}

StringSchema == Obj([k \in {"type"} |-> Str("string")])

RECURSIVE SeqOfSet(_)
SeqOfSet(S) ==
    IF S = {} THEN <<>>
    ELSE LET x == CHOOSE y \in S : TRUE IN <<x>> \o SeqOfSet(S \ {x})

NameArray(S) == LET q == SeqOfSet(S) IN Arr([i \in DOMAIN q |-> Str(q[i])])

ObjectVariant(P, R, withRequired) ==
    Obj([k \in {"type", "properties"} \cup (IF withRequired THEN {"required"} ELSE {}) |->
            IF k = "type" THEN Str("object")
            ELSE IF k = "properties" THEN Obj([n \in P |-> StringSchema])
            ELSE NameArray(R)])

ObjectVariants ==
    UNION {{ObjectVariant(P, R, TRUE) : R \in SUBSET P} : P \in SUBSET PropNames}
        \cup {ObjectVariant(P, {}, FALSE) : P \in SUBSET PropNames}

UnionKeys == {"anyOf", "oneOf"}

UnionSchema(unionKey, v1, v2) ==
    Obj([k \in {"type", unionKey} |-> IF k = "type" THEN Str("object") ELSE Arr(<<v1, v2>>)])

InputSchemas ==
    {UnionSchema(key, v1, v2) : key \in UnionKeys, v1 \in ObjectVariants, v2 \in ObjectVariants}

SchemaIdle ==
    /\ schemaIn = EmptyObj
    /\ schemaOut = None
    /\ toolParams = None
    /\ schemaPc = "idle"

SchemaInit ==
    /\ schemaIn \in InputSchemas
    /\ schemaOut = None
    /\ toolParams = None
    /\ schemaPc = "input"

\* Further tool parameter schemas: an object schema with or without a
\* properties map and with or without a required list (whose names need not
\* be declared), alone or as the schema of property "a" of a root object,
\* and a declaration without an object schema.
FlatNames == {"a", "b"}

FlatObject(P, R, withProperties, withRequired) ==
    Obj([k \in {"type"} \cup (IF withProperties THEN {"properties"} ELSE {})
                       \cup (IF withRequired THEN {"required"} ELSE {}) |->
            IF k = "type" THEN Str("object")
            ELSE IF k = "properties" THEN Obj([n \in P |-> StringSchema])
            ELSE NameArray(R)])

FlatObjects ==
    {FlatObject(P, R, wp, wr) :
        P \in SUBSET FlatNames, R \in SUBSET FlatNames, wp \in BOOLEAN, wr \in BOOLEAN}

NestedObject(inner, R, withRequired) ==
    Obj([k \in {"type", "properties"} \cup (IF withRequired THEN {"required"} ELSE {}) |->
            IF k = "type" THEN Str("object")
            ELSE IF k = "properties" THEN Obj([n \in {"a"} |-> inner])
            ELSE NameArray(R)])

NestedObjects ==
    {NestedObject(inner, R, wr) :
        inner \in FlatObjects, R \in SUBSET FlatNames, wr \in BOOLEAN}

ToolSchemas == FlatObjects \cup NestedObjects \cup {Bool(TRUE)}

SchemaToolInit ==
    /\ schemaIn \in ToolSchemas
    /\ schemaOut = None
    /\ toolParams = None
    /\ schemaPc = "input"

\* cleanJsonSchemaForAntigravity(schemaSource)
SchemaClean ==
    /\ schemaPc = "input"
    /\ schemaOut' = Some(cleanJsonSchemaForAntigravity(schemaIn))
    /\ schemaPc' = "cleaned"
    /\ UNCHANGED <<schemaIn, toolParams, notSchemaVars>>

\* parameters: normalizeToolParametersSchema(<the cleaned schema>)
SchemaNormalize ==
    /\ schemaPc = "cleaned"
    /\ toolParams' = Some(normalizeToolParametersSchema(schemaOut[1]))
    /\ schemaPc' = "normalized"
    /\ UNCHANGED <<schemaIn, schemaOut, notSchemaVars>>

SchemaNext == SchemaClean \/ SchemaNormalize

(***************************************************************************)
(* Anthropic SSE event handling: AnthropicProvider.parseSSEStream           *)
(*                                                                          *)
(* Strings that the parser concatenates (tool-call argument JSON, thinking  *)
(* text, signatures) are sequences of atoms. The argument JSON is a         *)
(* sequence of the tokens "{", "}", "k" (a key with its colon) and "1" (a   *)
(* digit); JSON.parse accepts  V ::= 1+ | {} | { k V }.                     *)
(***************************************************************************)
Num(n) == [t |-> "num", v |-> n]

RECURSIVE LeadingDigits(_)
LeadingDigits(ts) ==
    IF Len(ts) > 0 /\ Head(ts) = "1" THEN 1 + LeadingDigits(Tail(ts)) ELSE 0

RECURSIVE DigitsValue(_)
DigitsValue(n) == IF n = 0 THEN 0 ELSE 10 * DigitsValue(n - 1) + 1

RECURSIVE ParseValue(_)
\* one JSON value at the head of the tokens: None, or <<[val, rest]>>
ParseValue(ts) ==
    IF Len(ts) = 0 THEN None
    ELSE IF Head(ts) = "1"
    THEN LET n == LeadingDigits(ts)
         IN  Some([val |-> Num(DigitsValue(n)), rest |-> SubSeq(ts, n + 1, Len(ts))])
    ELSE IF Head(ts) = "{" /\ Len(ts) >= 2 /\ ts[2] = "}"
    THEN Some([val |-> EmptyObj, rest |-> SubSeq(ts, 3, Len(ts))])
    ELSE IF Head(ts) = "{" /\ Len(ts) >= 2 /\ ts[2] = "k"
    THEN LET inner == ParseValue(SubSeq(ts, 3, Len(ts)))
         IN  IF inner # None /\ Len(inner[1].rest) > 0 /\ Head(inner[1].rest) = "}"
             THEN Some([val |-> Obj([x \in {"k"} |-> inner[1].val]),
                        rest |-> Tail(inner[1].rest)])
             ELSE None
    ELSE None

\* JSON.parse(text): None when it throws, else <<value>>
JSONparse(ts) ==
    LET r == ParseValue(ts)
    IN  IF r # None /\ Len(r[1].rest) = 0 THEN Some(r[1].val) ELSE None

\* The response parts the generator yields.
TextPart(value) == [kind |-> "text", value |-> value]
ToolCallPart(id, name, input) ==
    [kind |-> "tool_call", callId |-> id, name |-> name, input |-> input]
ThinkingPart(value) == [kind |-> "thinking", value |-> value, metadata |-> None]
FinalThinkingPart(signature, completeThinking) ==
    [kind |-> "thinking", value |-> <<>>,
     metadata |-> Some([signature |-> signature, _completeThinking |-> completeThinking])]
DataPart(mime, payload) == [kind |-> "data", mimeType |-> mime, data |-> payload]

\* The events of a stream. A block-start event carries its content block.
BlockStart(index, block) == [type |-> "content_block_start", index |-> index, content_block |-> block]
BlockDelta(index, delta) == [type |-> "content_block_delta", index |-> index, delta |-> delta]
BlockStop(index) == [type |-> "content_block_stop", index |-> index]

ToolIds == <<"toolu_1", "toolu_2", "toolu_3", "toolu_4", "toolu_5", "toolu_6", "toolu_7", "toolu_8">>
ToolNames == <<"f1", "f2", "f3", "f4", "f5", "f6", "f7", "f8">>

ToolUseBlock(index) == [type |-> "tool_use", id |-> ToolIds[index + 1], name |-> ToolNames[index + 1]]
ServerToolUseBlock(index) ==
    [type |-> "server_tool_use", id |-> ToolIds[index + 1], name |-> "web_search"]
ThinkingBlock == [type |-> "thinking"]
RedactedThinkingBlock == [type |-> "redacted_thinking", data |-> <<"r">>]
WebSearchResultBlock == [type |-> "web_search_tool_result", tool_use_id |-> "srv"]
PlainTextBlock == [type |-> "text", text |-> <<>>, citations |-> <<>>]
CitedTextBlock == [type |-> "text", text |-> <<"x">>, citations |-> <<"cite">>]

StartBlocks(index) ==
    {ToolUseBlock(index), ServerToolUseBlock(index), ThinkingBlock, RedactedThinkingBlock,
     WebSearchResultBlock, PlainTextBlock, CitedTextBlock}

Fragments == {<<>>, <<"{">>, <<"}">>, <<"k">>, <<"1">>, <<"{", "k">>}
ThinkingTexts == {<<>>, <<"a">>, <<"b">>}
SignatureTexts == {<<>>, <<"s">>}

TextDelta == [type |-> "text_delta", text |-> <<"x">>]
InputJsonDelta(f) == [type |-> "input_json_delta", partial_json |-> f]
ThinkingDelta(x) == [type |-> "thinking_delta", thinking |-> x]
SignatureDelta(x) == [type |-> "signature_delta", signature |-> x]

\* The deltas a block of the given type receives in the Anthropic protocol.
DeltasFor(blockType) ==
    IF blockType \in {"tool_use", "server_tool_use"} THEN {InputJsonDelta(f) : f \in Fragments}
    ELSE IF blockType = "thinking"
    THEN {ThinkingDelta(x) : x \in ThinkingTexts} \cup {SignatureDelta(x) : x \in SignatureTexts}
    ELSE IF blockType = "text" THEN {TextDelta}
    ELSE {}

SseIdle ==
    /\ currentToolCall = None
    /\ pendingThinking = None
    /\ pendingRedactedThinking = None
    /\ currentServerToolUse = None
    /\ currentTextBlock = None
    /\ pendingWebSearchResult = None
    /\ parts = <<>>
    /\ ssePc = "idle"
    /\ nEvents = 0
    /\ nextIndex = 0
    /\ curBlock = None

\* the state at the top of parseSSEStream
SseInit ==
    /\ currentToolCall = None
    /\ pendingThinking = None
    /\ pendingRedactedThinking = None
    /\ currentServerToolUse = None
    /\ currentTextBlock = None
    /\ pendingWebSearchResult = None
    /\ parts = <<>>
    /\ ssePc = "reading"
    /\ nEvents = 0
    /\ nextIndex = 0
    /\ curBlock = None

parserVars == <<currentToolCall, pendingThinking, pendingRedactedThinking,
                currentServerToolUse, currentTextBlock, pendingWebSearchResult>>

\* event.type === 'content_block_start'
OnContentBlockStart(event) ==
    LET block == event.content_block
    IN  IF block.type = "tool_use"
        THEN /\ currentToolCall' = Some([id |-> block.id, name |-> block.name, inputJson |-> <<>>])
             /\ UNCHANGED <<pendingThinking, pendingRedactedThinking, currentServerToolUse,
                            currentTextBlock, pendingWebSearchResult, parts>>
        ELSE IF block.type = "thinking"
        THEN /\ pendingThinking' = Some([thinking |-> <<>>, signature |-> <<>>])
             /\ UNCHANGED <<currentToolCall, pendingRedactedThinking, currentServerToolUse,
                            currentTextBlock, pendingWebSearchResult, parts>>
        ELSE IF block.type = "redacted_thinking"
        THEN /\ pendingRedactedThinking' = Some([data |-> block.data])
             /\ UNCHANGED <<currentToolCall, pendingThinking, currentServerToolUse,
                            currentTextBlock, pendingWebSearchResult, parts>>
        ELSE IF block.type = "server_tool_use"
        THEN /\ currentServerToolUse' =
                    Some([id |-> block.id, name |-> block.name, inputJson |-> <<>>])
             /\ UNCHANGED <<currentToolCall, pendingThinking, pendingRedactedThinking,
                            currentTextBlock, pendingWebSearchResult, parts>>
        ELSE IF block.type = "web_search_tool_result"
        THEN /\ pendingWebSearchResult' = Some(block)
             /\ parts' = Append(parts, DataPart("web_search_tool_result", block))
             /\ UNCHANGED <<currentToolCall, pendingThinking, pendingRedactedThinking,
                            currentServerToolUse, currentTextBlock>>
        ELSE IF block.type = "text"
        THEN /\ currentTextBlock' =
                    Some([text |-> block.text, hasCitations |-> Len(block.citations) > 0])
             /\ parts' = IF Len(block.citations) > 0
                         THEN parts \o <<DataPart("text_citations", block.citations)>>
                                    \o (IF Len(block.text) > 0 THEN <<TextPart(block.text)>> ELSE <<>>)
                         ELSE parts
             /\ UNCHANGED <<currentToolCall, pendingThinking, pendingRedactedThinking,
                            currentServerToolUse, pendingWebSearchResult>>
        ELSE UNCHANGED <<parserVars, parts>>

\* Mutant: the tool call stays pending after its early emission.
AfterEarlyEmitKept(toolCall) == Some(toolCall)

\* currentToolCall = null, once the accumulated JSON parsed and was emitted
AfterEarlyEmit(toolCall) == None

\* acc += piece
Accumulate(acc, piece) == acc \o piece

\* event.type === 'content_block_delta'
OnContentBlockDelta(event) ==
    LET delta == event.delta
    IN  IF delta.type = "text_delta"
        THEN /\ parts' = Append(parts, TextPart(delta.text))
             /\ UNCHANGED parserVars
        ELSE IF delta.type = "input_json_delta"
        THEN IF currentToolCall # None
             THEN LET acc == [currentToolCall[1] EXCEPT
                                 !.inputJson = Accumulate(@, delta.partial_json)]
                      parsedJson == JSONparse(acc.inputJson)
                  IN  /\ IF parsedJson # None
                         THEN /\ parts' = Append(parts, ToolCallPart(acc.id, acc.name, parsedJson[1]))
                              /\ currentToolCall' = AfterEarlyEmit(acc)
                         ELSE /\ currentToolCall' = Some(acc)
                              /\ UNCHANGED parts
                      /\ UNCHANGED <<pendingThinking, pendingRedactedThinking,
                                     currentServerToolUse, currentTextBlock,
                                     pendingWebSearchResult>>
             ELSE IF currentServerToolUse # None
             THEN /\ currentServerToolUse' =
                        Some([currentServerToolUse[1] EXCEPT
                                 !.inputJson = Accumulate(@, delta.partial_json)])
                  /\ UNCHANGED <<currentToolCall, pendingThinking, pendingRedactedThinking,
                                 currentTextBlock, pendingWebSearchResult, parts>>
             ELSE UNCHANGED <<parserVars, parts>>
        ELSE IF delta.type = "thinking_delta" /\ pendingThinking # None
        THEN /\ pendingThinking' =
                    Some([pendingThinking[1] EXCEPT !.thinking = Accumulate(@, delta.thinking)])
             /\ parts' = Append(parts, ThinkingPart(delta.thinking))
             /\ UNCHANGED <<currentToolCall, pendingRedactedThinking, currentServerToolUse,
                            currentTextBlock, pendingWebSearchResult>>
        ELSE IF delta.type = "signature_delta" /\ pendingThinking # None
        THEN /\ pendingThinking' =
                    Some([pendingThinking[1] EXCEPT !.signature = Accumulate(@, delta.signature)])
             /\ UNCHANGED <<currentToolCall, pendingRedactedThinking, currentServerToolUse,
                            currentTextBlock, pendingWebSearchResult, parts>>
        ELSE UNCHANGED <<parserVars, parts>>

\* JSON.parse(inputJson || '{}')
ParseOrEmptyObject(inputJson) ==
    IF Len(inputJson) = 0 THEN Some(EmptyObj) ELSE JSONparse(inputJson)

\* Mutant: the final thinking part is emitted whether or not a signature arrived.
HasSignatureAlways(thinking) == TRUE

\* if (pendingThinking.signature)
HasSignature(thinking) == Len(thinking.signature) > 0

\* event.type === 'content_block_stop'
OnContentBlockStop ==
    IF currentToolCall # None
    THEN LET input == ParseOrEmptyObject(currentToolCall[1].inputJson)
         IN  /\ parts' = IF input # None
                         THEN Append(parts, ToolCallPart(currentToolCall[1].id,
                                                         currentToolCall[1].name, input[1]))
                         ELSE parts
             /\ currentToolCall' = None
             /\ UNCHANGED <<pendingThinking, pendingRedactedThinking, currentServerToolUse,
                            currentTextBlock, pendingWebSearchResult>>
    ELSE IF currentServerToolUse # None
    THEN LET input == ParseOrEmptyObject(currentServerToolUse[1].inputJson)
         IN  /\ parts' = IF input # None
                         THEN Append(parts,
                                     DataPart("server_tool_use",
                                              [id |-> currentServerToolUse[1].id,
                                               name |-> currentServerToolUse[1].name,
                                               input |-> input[1]]))
                         ELSE parts
             /\ currentServerToolUse' = None
             /\ UNCHANGED <<currentToolCall, pendingThinking, pendingRedactedThinking,
                            currentTextBlock, pendingWebSearchResult>>
    ELSE IF pendingThinking # None
    THEN /\ parts' = IF HasSignature(pendingThinking[1])
                     THEN Append(parts, FinalThinkingPart(pendingThinking[1].signature,
                                                          pendingThinking[1].thinking))
                     ELSE parts
         /\ pendingThinking' = None
         /\ UNCHANGED <<currentToolCall, pendingRedactedThinking, currentServerToolUse,
                        currentTextBlock, pendingWebSearchResult>>
    ELSE IF pendingRedactedThinking # None
    THEN /\ pendingRedactedThinking' = None
         /\ UNCHANGED <<currentToolCall, pendingThinking, currentServerToolUse,
                        currentTextBlock, pendingWebSearchResult, parts>>
    ELSE IF pendingWebSearchResult # None
    THEN /\ pendingWebSearchResult' = None
         /\ UNCHANGED <<currentToolCall, pendingThinking, pendingRedactedThinking,
                        currentServerToolUse, currentTextBlock, parts>>
    ELSE IF currentTextBlock # None
    THEN /\ currentTextBlock' = None
         /\ UNCHANGED <<currentToolCall, pendingThinking, pendingRedactedThinking,
                        currentServerToolUse, pendingWebSearchResult, parts>>
    ELSE UNCHANGED <<parserVars, parts>>

\* The record kept of the block the server is streaming (history).
NewBlockLog(index, block) ==
    [index |-> index, type |-> block.type, block |-> block, closed |-> FALSE,
     partsBefore |-> Len(parts), nFrags |-> 0, frags |-> <<>>, prefixValid |-> FALSE,
     thinking |-> <<>>, signature |-> <<>>]

LogDelta(log, delta) ==
    IF delta.type = "input_json_delta"
    THEN [log EXCEPT !.nFrags = @ + 1,
                     !.frags = @ \o delta.partial_json,
                     !.prefixValid = @ \/ (log.nFrags >= 1 /\ JSONparse(log.frags) # None)]
    ELSE IF delta.type = "thinking_delta" THEN [log EXCEPT !.thinking = @ \o delta.thinking]
    ELSE IF delta.type = "signature_delta" THEN [log EXCEPT !.signature = @ \o delta.signature]
    ELSE log

BlockOpen == curBlock # None /\ ~curBlock[1].closed

\* a data: line carrying a content_block_start event; the server opens block
\* nextIndex when no block is open
SseBlockStart ==
    /\ ssePc = "reading"
    /\ nEvents < MaxEvents
    /\ ~BlockOpen
    /\ \E block \in StartBlocks(nextIndex) :
        /\ OnContentBlockStart(BlockStart(nextIndex, block))
        /\ curBlock' = Some(NewBlockLog(nextIndex, block))
    /\ nextIndex' = nextIndex + 1
    /\ nEvents' = nEvents + 1
    /\ UNCHANGED <<ssePc, notSseVars>>

\* a data: line carrying a content_block_delta event of the open block
SseBlockDelta ==
    /\ ssePc = "reading"
    /\ nEvents < MaxEvents
    /\ BlockOpen
    /\ \E delta \in DeltasFor(curBlock[1].type) :
        /\ OnContentBlockDelta(BlockDelta(curBlock[1].index, delta))
        /\ curBlock' = Some(LogDelta(curBlock[1], delta))
    /\ nEvents' = nEvents + 1
    /\ UNCHANGED <<ssePc, nextIndex, notSseVars>>

\* a data: line carrying the content_block_stop event of the open block
SseBlockStop ==
    /\ ssePc = "reading"
    /\ nEvents < MaxEvents
    /\ BlockOpen
    /\ OnContentBlockStop
    /\ curBlock' = Some([curBlock[1] EXCEPT !.closed = TRUE])
    /\ nEvents' = nEvents + 1
    /\ UNCHANGED <<ssePc, nextIndex, notSseVars>>

\* a data: line that is not JSON, or an event of another type (ping,
\* message_start, message_delta, message_stop): caught or ignored
SseSkippedLine ==
    /\ ssePc = "reading"
    /\ nEvents < MaxEvents
    /\ nEvents' = nEvents + 1
    /\ UNCHANGED <<parserVars, parts, ssePc, nextIndex, curBlock, notSseVars>>

\* event.type === 'error': throw new Error(`Stream error: ...`), rethrown
SseErrorEvent ==
    /\ ssePc = "reading"
    /\ nEvents < MaxEvents
    /\ ssePc' = "failed"
    /\ nEvents' = nEvents + 1
    /\ UNCHANGED <<parserVars, parts, nextIndex, curBlock, notSseVars>>

\* data === '[DONE]': return;  or reader.read() reports done: break
SseEnd ==
    /\ ssePc = "reading"
    /\ ssePc' = "done"
    /\ UNCHANGED <<parserVars, parts, nEvents, nextIndex, curBlock, notSseVars>>

SseNext ==
    SseBlockStart \/ SseBlockDelta \/ SseBlockStop \/ SseSkippedLine \/ SseErrorEvent \/ SseEnd

(***************************************************************************)
(* One chat request: AnthropicProvider.streamChat with parseSSEStream's     *)
(* read loop, GoogleAntigravityProvider.streamChat, the caller's            *)
(* cancellation token and the consumer of the produced sequence.            *)
(*                                                                          *)
(* The token's callbacks run only while the generator is suspended: at      *)
(* `await fetch`, at `await reader.read()` or at a `yield` whose part the   *)
(* consumer is handling. Aborting the                                       *)
(* controller rejects a pending fetch and errors the response body, so a    *)
(* pending or later read() rejects with the abort error.                    *)
(***************************************************************************)
Adapters == {"anthropic", "antigravity"}

PingLine == [type |-> "ping"]
ErrorLine == [type |-> "error"]
DoneLine == [type |-> "[DONE]"]

\* The data: lines a chunk of the response body may hold.
ChatLines == {BlockDelta(0, TextDelta), PingLine, ErrorLine, DoneLine}

RECURSIVE SeqsUpTo(_, _)
\* the sequences over S of length 1..n
SeqsUpTo(S, n) ==
    IF n = 0 THEN {}
    ELSE {<<x>> : x \in S} \cup {<<x>> \o q : x \in S, q \in SeqsUpTo(S, n - 1)}

Chunks == SeqsUpTo(ChatLines, MaxLines)

HttpError(status) == [kind |-> "http", status |-> status]
TransportError(err) == [kind |-> err]
StreamError == [kind |-> "stream"]

transportRest == <<retryConfig, maxRetries, attempt, lastResponse, fetchPc, fetchResult,
                   fetchError, waits>>
sseRest == <<ssePc, nEvents, nextIndex, curBlock>>
cancelVars == <<cancelRequested, aborted, cancelPoint, partsAtCancel>>

ChatIdle ==
    /\ adapter = "none"
    /\ chatPc = "idle"
    /\ cancelRequested = FALSE
    /\ aborted = FALSE
    /\ listenerDisposed = FALSE
    /\ pendingLines = <<>>
    /\ chatError = None
    /\ chunks = 0
    /\ cancelPoint = "none"
    /\ partsAtCancel = 0

\* streamChat is called: the abort controller and the cancellation listener
\* exist, nothing has been sent
ChatInit ==
    /\ adapter \in Adapters
    /\ chatPc = "start"
    /\ cancelRequested = FALSE
    /\ aborted = FALSE
    /\ listenerDisposed = FALSE
    /\ pendingLines = <<>>
    /\ chatError = None
    /\ chunks = 0
    /\ cancelPoint = "none"
    /\ partsAtCancel = 0

\* Mutant: a stream that fails is started over.
AfterStreamFailureRestart == "start"

\* the generator throws: the error leaves parseSSEStream and streamChat
AfterStreamFailure == "failed"

\* const response = await fetch(endpoint, {..., signal: abortController.signal})
StreamChatSend ==
    /\ adapter = "anthropic"
    /\ chatPc = "start"
    /\ requests' = requests + 1
    /\ chatPc' = "fetching"
    /\ UNCHANGED <<notChatVars, sseVars, transportRest, replies, adapter, cancelVars,
                   listenerDisposed, pendingLines, chatError, chunks>>

\* fetch resolved: a reply that is not ok is thrown, an ok reply is streamed
StreamChatReply ==
    /\ adapter = "anthropic"
    /\ chatPc = "fetching"
    /\ ~aborted
    /\ \E r \in ServerAnswers(requests) :
        /\ r.kind = "response"
        /\ replies' = Append(replies, r)
        /\ IF ResponseOk(r.status)
           THEN /\ chatPc' = "loop"
                /\ UNCHANGED <<chatError, listenerDisposed>>
           ELSE \* throw new Error(`API request failed (${response.status}): ...`)
                /\ chatPc' = "failed"
                /\ chatError' = Some(HttpError(r.status))
                /\ listenerDisposed' = TRUE
    /\ UNCHANGED <<notChatVars, sseVars, transportRest, requests, adapter, cancelVars,
                   pendingLines, chunks>>

\* fetch rejected (network failure, or the abort): catch { throw error }
StreamChatFetchRejected ==
    /\ adapter = "anthropic"
    /\ chatPc = "fetching"
    /\ replies' = Append(replies, Failure(IF aborted THEN "abort" ELSE "network", requests))
    /\ chatPc' = "failed"
    /\ chatError' = Some(TransportError(IF aborted THEN "abort" ELSE "network"))
    /\ listenerDisposed' = TRUE
    /\ UNCHANGED <<notChatVars, sseVars, transportRest, requests, adapter, cancelVars,
                   pendingLines, chunks>>

\* while (!token.isCancellationRequested) { ... await reader.read()
ParseLoopTest ==
    /\ chatPc = "loop"
    /\ IF cancelRequested
       THEN /\ chatPc' = "done"
            /\ listenerDisposed' = TRUE
       ELSE /\ chatPc' = "reading"
            /\ UNCHANGED listenerDisposed
    /\ UNCHANGED <<notChatVars, sseVars, retryVars, adapter, cancelVars, pendingLines,
                   chatError, chunks>>

\* reader.read() resolved with a chunk: its complete lines are split off
ParseReadChunk ==
    /\ chatPc = "reading"
    /\ ~aborted
    /\ chunks < MaxChunks
    /\ \E lines \in Chunks : pendingLines' = lines
    /\ chunks' = chunks + 1
    /\ chatPc' = "lines"
    /\ UNCHANGED <<notChatVars, sseVars, retryVars, adapter, cancelVars,
                   listenerDisposed, chatError>>

\* reader.read() resolved with done: break
ParseReadDone ==
    /\ chatPc = "reading"
    /\ ~aborted
    /\ chatPc' = "done"
    /\ listenerDisposed' = TRUE
    /\ UNCHANGED <<notChatVars, sseVars, retryVars, adapter, cancelVars, pendingLines,
                   chatError, chunks>>

\* reader.read() rejected: the connection failed, or the body was aborted
ParseReadRejected ==
    /\ chatPc = "reading"
    /\ chatPc' = AfterStreamFailure
    /\ chatError' = Some(TransportError(IF aborted THEN "abort" ELSE "network"))
    /\ listenerDisposed' = TRUE
    /\ UNCHANGED <<notChatVars, sseVars, retryVars, adapter, cancelVars, pendingLines,
                   chunks>>

\* for (const line of lines): a content-block event; the generator suspends
\* at each yield
ParseLineEvent ==
    /\ chatPc = "lines"
    /\ Len(pendingLines) > 0
    /\ Head(pendingLines).type = "content_block_delta"
    /\ OnContentBlockDelta(Head(pendingLines))
    /\ pendingLines' = Tail(pendingLines)
    /\ chatPc' = IF Len(parts') > Len(parts) THEN "yielded" ELSE "lines"
    /\ UNCHANGED <<notChatVars, sseRest, retryVars, adapter, cancelVars,
                   listenerDisposed, chatError, chunks>>

\* a line that yields nothing
ParseLineSkipped ==
    /\ chatPc = "lines"
    /\ Len(pendingLines) > 0
    /\ Head(pendingLines).type = "ping"
    /\ pendingLines' = Tail(pendingLines)
    /\ UNCHANGED <<notChatVars, sseVars, retryVars, adapter, chatPc, cancelVars,
                   listenerDisposed, chatError, chunks>>

\* if (data === '[DONE]') return
ParseLineDone ==
    /\ chatPc = "lines"
    /\ Len(pendingLines) > 0
    /\ Head(pendingLines).type = "[DONE]"
    /\ chatPc' = "done"
    /\ listenerDisposed' = TRUE
    /\ UNCHANGED <<notChatVars, sseVars, retryVars, adapter, cancelVars, pendingLines,
                   chatError, chunks>>

\* event.type === 'error': throw new Error(`Stream error: ...`)
ParseLineError ==
    /\ chatPc = "lines"
    /\ Len(pendingLines) > 0
    /\ Head(pendingLines).type = "error"
    /\ chatPc' = AfterStreamFailure
    /\ chatError' = Some(StreamError)
    /\ listenerDisposed' = TRUE
    /\ UNCHANGED <<notChatVars, sseVars, retryVars, adapter, cancelVars, pendingLines,
                   chunks>>

\* the lines of the chunk are used up: back to the loop test
ParseLinesEnd ==
    /\ chatPc = "lines"
    /\ Len(pendingLines) = 0
    /\ chatPc' = "loop"
    /\ UNCHANGED <<notChatVars, sseVars, retryVars, adapter, cancelVars, pendingLines,
                   listenerDisposed, chatError, chunks>>

\* the dispatch loop received a part while the token had not fired:
\* progress.report(part)
ConsumerReport ==
    /\ adapter = "anthropic"
    /\ chatPc = "yielded"
    /\ ~cancelRequested
    /\ chatPc' = "reported"
    /\ UNCHANGED <<notChatVars, sseVars, retryVars, adapter, cancelVars, pendingLines,
                   listenerDisposed, chatError, chunks>>

\* the consumer asks for the next part: the generator resumes after its yield
ConsumerNext ==
    /\ adapter = "anthropic"
    /\ chatPc = "reported"
    /\ chatPc' = "lines"
    /\ UNCHANGED <<notChatVars, sseVars, retryVars, adapter, cancelVars, pendingLines,
                   listenerDisposed, chatError, chunks>>

\* the dispatch loop: if (token.isCancellationRequested) break;  the generator
\* is closed at its yield and its finally blocks run
ConsumerBreak ==
    /\ adapter = "anthropic"
    /\ chatPc = "yielded"
    /\ cancelRequested
    /\ chatPc' = "done"
    /\ listenerDisposed' = TRUE
    /\ UNCHANGED <<notChatVars, sseVars, retryVars, adapter, cancelVars, pendingLines,
                   chatError, chunks>>

\* the caller cancels: token.onCancellationRequested(() => abortController.abort())
CancellationRequested ==
    /\ adapter = "anthropic"
    /\ chatPc \in {"fetching", "reading", "reported"}
    /\ ~cancelRequested
    /\ cancelRequested' = TRUE
    /\ aborted' = ~listenerDisposed
    /\ cancelPoint' = IF chatPc = "fetching" THEN "connecting"
                      ELSE IF chatPc = "reading" THEN "awaitingChunk"
                      ELSE "betweenChunks"
    /\ partsAtCancel' = Len(parts)
    /\ UNCHANGED <<notChatVars, sseVars, retryVars, adapter, chatPc, pendingLines,
                   listenerDisposed, chatError, chunks>>

\* const fetcher = createCustomFetch(...); await fetcher(endpoint, ...): the
\* request goes through the retrying transport with its default configuration
AgCallFetcher ==
    /\ adapter = "antigravity"
    /\ chatPc = "start"
    /\ FetchCall(None)

\* the fetcher returned a response: if (!response.ok) throw, else stream it
AgFetcherReturned ==
    /\ adapter = "antigravity"
    /\ chatPc = "start"
    /\ fetchPc = "returned"
    /\ IF ResponseOk(fetchResult[1].status)
       THEN /\ chatPc' = "agStreaming"
            /\ UNCHANGED <<chatError, listenerDisposed>>
       ELSE /\ chatPc' = "failed"
            /\ chatError' = Some(HttpError(fetchResult[1].status))
            /\ listenerDisposed' = TRUE
    /\ UNCHANGED <<notChatVars, sseVars, retryVars, adapter, cancelVars, pendingLines,
                   chunks>>

\* the fetcher threw: the error leaves streamChat through its finally
AgFetcherThrew ==
    /\ adapter = "antigravity"
    /\ chatPc = "start"
    /\ fetchPc = "threw"
    /\ chatPc' = "failed"
    /\ chatError' = Some(TransportError(fetchError[1]))
    /\ listenerDisposed' = TRUE
    /\ UNCHANGED <<notChatVars, sseVars, retryVars, adapter, cancelVars, pendingLines,
                   chunks>>

\* yield* this.parseMessageStream(...): one more part
AgStreamPart ==
    /\ chatPc = "agStreaming"
    /\ Len(parts) < MaxAgParts
    /\ parts' = Append(parts, TextPart(<<"x">>))
    /\ UNCHANGED <<notChatVars, parserVars, sseRest, retryVars, chatVars>>

\* the stream fails while being read
AgStreamFailure ==
    /\ chatPc = "agStreaming"
    /\ chatPc' = AfterStreamFailure
    /\ chatError' = Some(TransportError("network"))
    /\ listenerDisposed' = TRUE
    /\ UNCHANGED <<notChatVars, sseVars, retryVars, adapter, cancelVars, pendingLines,
                   chunks>>

\* the stream ends
AgStreamEnd ==
    /\ chatPc = "agStreaming"
    /\ chatPc' = "done"
    /\ listenerDisposed' = TRUE
    /\ UNCHANGED <<notChatVars, sseVars, retryVars, adapter, cancelVars, pendingLines,
                   chatError, chunks>>

ChatNext ==
    \/ StreamChatSend \/ StreamChatReply \/ StreamChatFetchRejected
    \/ ParseLoopTest \/ ParseReadChunk \/ ParseReadDone \/ ParseReadRejected
    \/ ParseLineEvent \/ ParseLineSkipped \/ ParseLineDone \/ ParseLineError \/ ParseLinesEnd
    \/ ConsumerReport \/ ConsumerNext \/ ConsumerBreak \/ CancellationRequested
    \/ AgCallFetcher \/ FetchSend \/ FetchExhausted \/ FetchResponse \/ FetchFailure
    \/ FetchDelayElapsed
    \/ AgFetcherReturned \/ AgFetcherThrew \/ AgStreamPart \/ AgStreamFailure \/ AgStreamEnd

(***************************************************************************)
(* The SSE decoder: GoogleAntigravityProvider.streamAntigravitySse          *)
(*                                                                          *)
(* The response body is a sequence of symbols: "N" is a newline, "R" a      *)
(* carriage return, "D" the text `data:`, "E" the text `[DONE]`, " " a      *)
(* space, "c" any other character; "{", "}", "k", "1" are the JSON tokens   *)
(* of JSONparse. A chunk is any non-empty prefix of what is left to deliver.*)
(***************************************************************************)
Whitespace == {" ", "N", "R"}

RECURSIVE TrimStart(_)
TrimStart(q) == IF Len(q) > 0 /\ Head(q) \in Whitespace THEN TrimStart(Tail(q)) ELSE q

RECURSIVE TrimEnd(_)
TrimEnd(q) ==
    IF Len(q) > 0 /\ q[Len(q)] \in Whitespace THEN TrimEnd(SubSeq(q, 1, Len(q) - 1)) ELSE q

Trim(q) == TrimStart(TrimEnd(q))

RECURSIVE JoinLines(_)
\* dataLines.join('\n')
JoinLines(ls) ==
    IF Len(ls) = 0 THEN <<>>
    ELSE IF Len(ls) = 1 THEN ls[1]
    ELSE ls[1] \o <<"N">> \o JoinLines(Tail(ls))

IsJsonToken(x) == x \notin Whitespace

\* buffer.indexOf('\n'), 0 when there is none
RECURSIVE NewlineIndex(_)
NewlineIndex(q) ==
    IF Len(q) = 0 THEN 0
    ELSE IF Head(q) = "N" THEN 1
    ELSE LET r == NewlineIndex(Tail(q)) IN IF r = 0 THEN 0 ELSE r + 1

\* rawLine.endsWith('\r') ? rawLine.slice(0, -1) : rawLine
StripCR(rawLine) ==
    IF Len(rawLine) > 0 /\ rawLine[Len(rawLine)] = "R"
    THEN SubSeq(rawLine, 1, Len(rawLine) - 1)
    ELSE rawLine

\* new GenerateContentResponse()
EmptyEvent == [fields |-> EmptyObj.v]

\* extractAntigravityResponsePayload, then toGenerateContentResponse
EventOfJson(parsed) ==
    IF ~isRecord(parsed) THEN EmptyEvent
    ELSE IF Has(parsed.v, "response") /\ isRecord(parsed.v["response"])
    THEN [fields |-> parsed.v["response"].v]
    ELSE [fields |-> parsed.v]

\* a flush that takes the [DONE] sentinel for one more payload
flushEventNoSentinel(lines) ==
    IF Len(lines) = 0 THEN Some(EmptyEvent)
    ELSE LET parsed == JSONparse(SelectSeq(Trim(JoinLines(lines)), IsJsonToken))
         IN  IF parsed = None THEN Some(EmptyEvent) ELSE Some(EventOfJson(parsed[1]))

\* a flush that ends the stream at a payload that is not a JSON text
flushEventStopsOnInvalid(lines) ==
    IF Len(lines) = 0 THEN Some(EmptyEvent)
    ELSE LET data == Trim(JoinLines(lines))
         IN  IF Len(data) = 0 THEN Some(EmptyEvent)
             ELSE LET parsed == JSONparse(SelectSeq(data, IsJsonToken))
                  IN  IF parsed = None THEN None ELSE Some(EventOfJson(parsed[1]))

\* flushEvent(): None for the [DONE] sentinel, else <<the event>>
flushEvent(lines) ==
    IF Len(lines) = 0 THEN Some(EmptyEvent)
    ELSE LET data == Trim(JoinLines(lines))
         IN  IF Len(data) = 0 THEN Some(EmptyEvent)
             ELSE IF data = <<"E">> THEN None
             ELSE LET parsed == JSONparse(SelectSeq(data, IsJsonToken))
                  IN  IF parsed = None THEN Some(EmptyEvent)
                      ELSE Some(EventOfJson(parsed[1]))

\* The lines a server may send.
BlankLine == <<>>
DataJson == <<"D", " ", "{", "k", "1", "}">>
DataOpen == <<"D", "{", "k">>
DataClose == <<"D", "1", "}">>
DataDone == <<"D", " ", "E">>
CommentLine == <<"c">>
WireLines == {BlankLine, DataJson, DataOpen, DataClose, DataDone, CommentLine}

RECURSIVE JoinWire(_)
\* the lines, each ended by a newline
JoinWire(ls) == IF Len(ls) = 0 THEN <<>> ELSE ls[1] \o <<"N">> \o JoinWire(Tail(ls))

\* The response bodies explored: up to MaxWireLines lines, the last one with
\* or without its newline.
Wires ==
    LET lineSeqs == SeqsUpTo(WireLines, MaxWireLines)
    IN  {JoinWire(ls) : ls \in lineSeqs}
        \cup {SubSeq(JoinWire(ls), 1, Len(JoinWire(ls)) - 1) : ls \in lineSeqs}

\* a chunk that loses the text left in the buffer
AppendChunkReplace(buf, chunk) == chunk

\* buffer += decoder.decode(value, { stream: true })
AppendChunk(buf, chunk) == buf \o chunk

DecIdle ==
    /\ wire = <<>>
    /\ wireIn = <<>>
    /\ buffer = <<>>
    /\ dataLines = <<>>
    /\ decPc = "idle"
    /\ decEvents = <<>>
    /\ abortSet = FALSE
    /\ eventsAtAbort = 0

\* let buffer = ''; let dataLines = []; const reader = stream.getReader()
DecInit ==
    /\ wire \in Wires
    /\ wireIn = wire
    /\ buffer = <<>>
    /\ dataLines = <<>>
    /\ decPc = "top"
    /\ decEvents = <<>>
    /\ abortSet = FALSE
    /\ eventsAtAbort = 0

RECURSIVE TailScan(_, _, _)
\* after the read loop: the complete lines still in the buffer, then one last
\* flushEvent(); the result is the sequence of events yielded
TailScan(buf, lines, yielded) ==
    LET i == NewlineIndex(buf)
    IN  IF i = 0
        THEN LET flushed == flushEvent(lines)
             IN  IF flushed = None THEN yielded ELSE Append(yielded, flushed[1])
        ELSE LET line == StripCR(SubSeq(buf, 1, i - 1))
                 rest == SubSeq(buf, i + 1, Len(buf))
                 pushed == IF Len(line) > 0 /\ Head(line) = "D"
                           THEN Append(lines, TrimStart(Tail(line)))
                           ELSE lines
             IN  IF Len(line) = 0
                 THEN LET flushed == flushEvent(pushed)
                      IN  IF flushed = None THEN yielded
                          ELSE TailScan(rest, <<>>, Append(yielded, flushed[1]))
                 ELSE TailScan(rest, pushed, yielded)

\* while (true) { if (abortSignal.aborted) { await reader.cancel(); break; }
\* on break the tail of the function runs and the generator returns
DecLoopTop ==
    /\ decPc = "top"
    /\ IF abortSet
       THEN /\ decEvents' = TailScan(buffer, dataLines, decEvents)
            /\ decPc' = "done"
       ELSE /\ decPc' = "reading"
            /\ UNCHANGED decEvents
    /\ UNCHANGED <<wire, buffer, dataLines, abortSet, eventsAtAbort, wireIn, notDecVars>>

\* reader.read() resolved with a chunk: buffer += decoder.decode(value)
DecReadChunk ==
    /\ decPc = "reading"
    /\ ~abortSet
    /\ \E n \in 1..Len(wire) :
        /\ buffer' = AppendChunk(buffer, SubSeq(wire, 1, n))
        /\ wire' = SubSeq(wire, n + 1, Len(wire))
    /\ decPc' = "scan"
    /\ UNCHANGED <<dataLines, decEvents, abortSet, eventsAtAbort, wireIn, notDecVars>>

\* reader.read() resolved with done: break, then the tail of the function
DecReadDone ==
    /\ decPc = "reading"
    /\ ~abortSet
    /\ Len(wire) = 0
    /\ decEvents' = TailScan(buffer, dataLines, decEvents)
    /\ decPc' = "done"
    /\ UNCHANGED <<wire, buffer, dataLines, abortSet, eventsAtAbort, wireIn, notDecVars>>

\* reader.read() rejected: the connection failed, or the body was aborted
DecReadRejected ==
    /\ decPc = "reading"
    /\ decPc' = "failed"
    /\ UNCHANGED <<wire, buffer, dataLines, decEvents, abortSet, eventsAtAbort, wireIn, notDecVars>>

\* the inner loop took an empty line: flushEvent(), return on the sentinel,
\* else yield the event
DecScanBlankLine ==
    /\ decPc = "scan"
    /\ NewlineIndex(buffer) > 0
    /\ LET i == NewlineIndex(buffer)
           line == StripCR(SubSeq(buffer, 1, i - 1))
           flushed == flushEvent(dataLines)
       IN  /\ Len(line) = 0
           /\ buffer' = SubSeq(buffer, i + 1, Len(buffer))
           /\ dataLines' = <<>>
           /\ IF flushed = None
              THEN /\ decPc' = "done"
                   /\ UNCHANGED decEvents
              ELSE /\ decEvents' = Append(decEvents, flushed[1])
                   /\ decPc' = "yielded"
    /\ UNCHANGED <<wire, abortSet, eventsAtAbort, wireIn, notDecVars>>

\* the inner loop took a data: line: dataLines.push(line.slice(5).trimStart())
DecScanDataLine ==
    /\ decPc = "scan"
    /\ NewlineIndex(buffer) > 0
    /\ LET i == NewlineIndex(buffer)
           line == StripCR(SubSeq(buffer, 1, i - 1))
       IN  /\ Len(line) > 0
           /\ Head(line) = "D"
           /\ buffer' = SubSeq(buffer, i + 1, Len(buffer))
           /\ dataLines' = Append(dataLines, TrimStart(Tail(line)))
    /\ UNCHANGED <<wire, decPc, decEvents, abortSet, eventsAtAbort, wireIn, notDecVars>>

\* the inner loop took any other line: it is dropped
DecScanOtherLine ==
    /\ decPc = "scan"
    /\ NewlineIndex(buffer) > 0
    /\ LET i == NewlineIndex(buffer)
           line == StripCR(SubSeq(buffer, 1, i - 1))
       IN  /\ Len(line) > 0
           /\ Head(line) # "D"
           /\ buffer' = SubSeq(buffer, i + 1, Len(buffer))
    /\ UNCHANGED <<wire, dataLines, decPc, decEvents, abortSet, eventsAtAbort, wireIn, notDecVars>>

\* if (newlineIndex === -1) break: back to the top of the read loop
DecScanEnd ==
    /\ decPc = "scan"
    /\ NewlineIndex(buffer) = 0
    /\ decPc' = "top"
    /\ UNCHANGED <<wire, buffer, dataLines, decEvents, abortSet, eventsAtAbort, wireIn, notDecVars>>

\* the consumer asks for the next event: the generator resumes after its yield
DecResume ==
    /\ decPc = "yielded"
    /\ decPc' = "scan"
    /\ UNCHANGED <<wire, buffer, dataLines, decEvents, abortSet, eventsAtAbort, wireIn, notDecVars>>

\* abortController.abort() while the decoder is suspended
DecAbort ==
    /\ decPc \in {"reading", "yielded"}
    /\ ~abortSet
    /\ abortSet' = TRUE
    /\ eventsAtAbort' = Len(decEvents)
    /\ UNCHANGED <<wire, buffer, dataLines, decPc, decEvents, wireIn, notDecVars>>

DecNext ==
    \/ DecLoopTop \/ DecReadChunk \/ DecReadDone \/ DecReadRejected
    \/ DecScanBlankLine \/ DecScanDataLine \/ DecScanOtherLine \/ DecScanEnd
    \/ DecResume \/ DecAbort

(***************************************************************************)
(* parseSSEStream fed with the events of several tool-use blocks in any     *)
(* interleaving: each block is started once, receives input deltas while    *)
(* open, and is stopped once.                                               *)
(***************************************************************************)
BlockIndices == 0..MaxIndex

AccFragments == {<<"{">>, <<"}">>, <<"{", "}">>}

AccIdle ==
    /\ openBlocks = {}
    /\ startedBlocks = {}
    /\ partSources = <<>>

AccInit ==
    /\ openBlocks = {}
    /\ startedBlocks = {}
    /\ partSources = <<>>

\* the index of the handled event, once for each part the handler yielded
SourcesAfter(index) ==
    partSources \o [j \in 1..(Len(parts') - Len(parts)) |-> index]

\* content_block_start of a tool_use block with a fresh index
AccBlockStart ==
    /\ nEvents < MaxEvents
    /\ \E i \in BlockIndices \ startedBlocks :
        /\ OnContentBlockStart(BlockStart(i, ToolUseBlock(i)))
        /\ openBlocks' = openBlocks \cup {i}
        /\ startedBlocks' = startedBlocks \cup {i}
        /\ partSources' = SourcesAfter(i)
    /\ nEvents' = nEvents + 1
    /\ UNCHANGED <<ssePc, nextIndex, curBlock, notAccSseVars>>

\* content_block_delta (input_json_delta) carrying the index of an open block
AccBlockDelta ==
    /\ nEvents < MaxEvents
    /\ \E i \in openBlocks, f \in AccFragments :
        /\ OnContentBlockDelta(BlockDelta(i, InputJsonDelta(f)))
        /\ partSources' = SourcesAfter(i)
    /\ nEvents' = nEvents + 1
    /\ UNCHANGED <<openBlocks, startedBlocks, ssePc, nextIndex, curBlock, notAccSseVars>>

\* content_block_stop carrying the index of an open block
AccBlockStop ==
    /\ nEvents < MaxEvents
    /\ \E i \in openBlocks :
        /\ OnContentBlockStop
        /\ openBlocks' = openBlocks \ {i}
        /\ partSources' = SourcesAfter(i)
    /\ nEvents' = nEvents + 1
    /\ UNCHANGED <<startedBlocks, ssePc, nextIndex, curBlock, notAccSseVars>>

AccNext == AccBlockStart \/ AccBlockDelta \/ AccBlockStop

(***************************************************************************)
(* Building a request: tool conversion, tool-choice resolution and the      *)
(* thinking budget, in AnthropicProvider.streamChat and in                  *)
(* GoogleAntigravityProvider.streamChat, up to the first network call.      *)
(***************************************************************************)
ToolNamesIn == {"t1", "memory", "web_search"}

CallerTools == {<<>>} \cup SeqsUpTo(ToolNamesIn, MaxTools)

BudgetValues == {512, 2048, 40000}

MaxOutputValues == {1000, 2048, 4096}

\* the two values of vscode.LanguageModelChatToolMode
ToolModes == {"Auto", "Required"}

Min2(a, b) == IF a <= b THEN a ELSE b

\* AnthropicProvider.convertTools: the memory tool replaces the caller's tool
\* of that name, the web search server tool is appended
MemoryTool == [type |-> "memory_20250818", name |-> "memory"]

WebSearchTool == [type |-> "web_search_20250305", name |-> "web_search"]

CustomTool(name) == [type |-> "custom", name |-> name]

convertTools(tools, model) ==
    LET converted == [j \in 1..Len(tools) |->
            IF tools[j] = "memory" /\ model.memoryTool /\ model.memoryToolSupported
            THEN MemoryTool
            ELSE CustomTool(tools[j])]
        hasWebSearchTool == \E j \in 1..Len(tools) :
            tools[j] = "web_search" /\ converted[j] = CustomTool("web_search")
    IN  IF model.webSearchEnabled /\ model.webSearchSupported /\ ~hasWebSearchTool
        THEN Append(converted, WebSearchTool)
        ELSE converted

\* streamChat: tools are converted when the caller passed some or web search
\* is enabled
ToolsResult(in) ==
    IF Len(in.tools) > 0 \/ in.webSearchEnabled
    THEN Some(convertTools(in.tools, in))
    ELSE None

\* a resolution that forces a tool whatever the thinking state
ThinkingToolChoiceForced(toolMode) ==
    IF toolMode = "Required" THEN Some([type |-> "any"]) ELSE None

\* a resolution that never forces a tool by name
RequiredToolChoiceAny(tools) == Some([type |-> "any"])

\* the caller's tools before conversion and injection
ToolChoiceArgumentCallerTools ==
    IF Len(reqIn.tools) > 0
    THEN Some([j \in 1..Len(reqIn.tools) |-> CustomTool(reqIn.tools[j])])
    ELSE None

\* convertToolChoice, thinking enabled
ThinkingToolChoice(toolMode) ==
    IF toolMode = "Required" THEN Some([type |-> "auto"]) ELSE None

\* convertToolChoice, tool mode Required, a non-empty tool list
RequiredToolChoice(tools) ==
    IF Len(tools) = 1
    THEN Some([type |-> "tool", name |-> tools[1].name])
    ELSE Some([type |-> "any"])

NoToolsError == "Tool mode is set to Required but no tools are provided"

\* convertToolChoice: [threw, value]
convertToolChoice(toolMode, tools, thinkingEnabled) ==
    IF thinkingEnabled
    THEN [threw |-> FALSE, value |-> ThinkingToolChoice(toolMode)]
    ELSE IF toolMode = "Required"
         THEN IF tools = None \/ tools = Some(<<>>)
              THEN [threw |-> TRUE, value |-> None]
              ELSE [threw |-> FALSE, value |-> RequiredToolChoice(tools[1])]
         ELSE [threw |-> FALSE, value |-> None]

\* the tool list streamChat hands to convertToolChoice
ToolChoiceArgument == reqTools

getThinkingBudget(configValue, maxOutputTokens) ==
    LET value == IF configValue = None THEN 0 ELSE configValue[1]
        normalizedBudget == IF value < 1024 THEN 1024 ELSE value
    IN  Min2(32000, Min2(maxOutputTokens - 1, normalizedBudget))

interleavedThinkingEnabled(in) ==
    /\ in.thinkingEnabled
    /\ in.interleavedThinking
    /\ Len(in.tools) > 0
    /\ in.interleavedThinkingSupported

\* requestBody.thinking.budget_tokens
BudgetTokensSent(in) ==
    IF interleavedThinkingEnabled(in)
    THEN (IF in.budgetTokens = None THEN 1024 ELSE in.budgetTokens[1])
    ELSE getThinkingBudget(in.budgetTokens, in.maxOutputTokens[1])

AnthropicInputs ==
    [ toolMode : ToolModes,
      tools : CallerTools,
      thinkingEnabled : BOOLEAN,
      budgetTokens : {None} \cup {Some(b) : b \in BudgetValues},
      maxOutputTokens : {Some(m) : m \in MaxOutputValues},
      webSearchEnabled : BOOLEAN,
      webSearchSupported : BOOLEAN,
      memoryTool : BOOLEAN,
      memoryToolSupported : {TRUE},
      interleavedThinking : BOOLEAN,
      interleavedThinkingSupported : {TRUE},
      isClaudeModel : {TRUE},
      gemini3ThinkingLevel : {FALSE} ]

\* Antigravity: the model id decides isClaudeModel and the Gemini 3 thinking
\* level; maxOutputTokens may be left out of the configuration
AntigravityInputs ==
    [ toolMode : ToolModes,
      tools : CallerTools,
      thinkingEnabled : BOOLEAN,
      budgetTokens : {None} \cup {Some(b) : b \in BudgetValues},
      maxOutputTokens : {None} \cup {Some(m) : m \in MaxOutputValues},
      webSearchEnabled : {FALSE},
      webSearchSupported : {FALSE},
      memoryTool : {FALSE},
      memoryToolSupported : {FALSE},
      interleavedThinking : {FALSE},
      interleavedThinkingSupported : {FALSE},
      isClaudeModel : BOOLEAN,
      gemini3ThinkingLevel : BOOLEAN ]

\* normalizeTools: one declaration per caller tool, undefined when empty
normalizeTools(tools) ==
    IF Len(tools) = 0
    THEN None
    ELSE Some([j \in 1..Len(tools) |-> CustomTool(tools[j])])

buildAntigravityFunctionCallingConfig(mode, tools, isClaudeModel) ==
    IF tools = None \/ tools = Some(<<>>)
    THEN None
    ELSE IF isClaudeModel
         THEN Some([mode |-> "VALIDATED"])
         ELSE IF mode # "Required"
              THEN None
              ELSE Some([mode |-> "ANY"])

InvalidThinkingError ==
    "Invalid thinking config: maxOutputTokens must be greater than thinkingBudget"

\* streamChat: the budget check of the thinking configuration
AntigravityBudgetChecked(in) ==
    /\ in.thinkingEnabled
    /\ ~in.gemini3ThinkingLevel
    /\ in.budgetTokens # None

AntigravityBudgetRejected(in) ==
    /\ AntigravityBudgetChecked(in)
    /\ in.maxOutputTokens # None
    /\ in.maxOutputTokens[1] <= in.budgetTokens[1]

ReqIdle ==
    /\ reqAdapter = "none"
    /\ reqIn = None
    /\ reqTools = None
    /\ toolChoice = None
    /\ reqBody = None
    /\ reqPc = "idle"
    /\ reqError = None
    /\ reqSent = 0
    /\ choiceRuns = 0
    /\ choiceSaw = None

ReqInit ==
    /\ \/ reqAdapter = "anthropic" /\ reqIn \in AnthropicInputs
       \/ reqAdapter = "antigravity" /\ reqIn \in AntigravityInputs
    /\ reqTools = None
    /\ toolChoice = None
    /\ reqBody = None
    /\ reqPc = "start"
    /\ reqError = None
    /\ reqSent = 0
    /\ choiceRuns = 0
    /\ choiceSaw = None

\* AnthropicProvider.streamChat: const toolsResult = ...
ReqConvertTools ==
    /\ reqAdapter = "anthropic"
    /\ reqPc = "start"
    /\ reqTools' = ToolsResult(reqIn)
    /\ reqPc' = "tools"
    /\ UNCHANGED <<reqAdapter, reqIn, toolChoice, reqBody, reqError, reqSent, choiceRuns, choiceSaw>>
    /\ UNCHANGED notReqVars

\* const toolChoice = this.convertToolChoice(...) returns
ReqConvertToolChoice ==
    /\ reqAdapter = "anthropic"
    /\ reqPc = "tools"
    /\ LET r == convertToolChoice(reqIn.toolMode, ToolChoiceArgument, reqIn.thinkingEnabled)
       IN  /\ ~r.threw
           /\ toolChoice' = r.value
    /\ choiceRuns' = choiceRuns + 1
    /\ choiceSaw' = ToolChoiceArgument
    /\ reqPc' = "choice"
    /\ UNCHANGED <<reqAdapter, reqIn, reqTools, reqBody, reqError, reqSent>>
    /\ UNCHANGED notReqVars

\* this.convertToolChoice(...) throws: streamChat ends with the error
ReqToolChoiceThrew ==
    /\ reqAdapter = "anthropic"
    /\ reqPc = "tools"
    /\ convertToolChoice(reqIn.toolMode, ToolChoiceArgument, reqIn.thinkingEnabled).threw
    /\ choiceRuns' = choiceRuns + 1
    /\ choiceSaw' = ToolChoiceArgument
    /\ reqError' = Some(NoToolsError)
    /\ reqPc' = "failed"
    /\ UNCHANGED <<reqAdapter, reqIn, reqTools, toolChoice, reqBody, reqSent>>
    /\ UNCHANGED notReqVars

\* the request body: max_tokens, tools, tool_choice, thinking
ReqBuildBody ==
    /\ reqAdapter = "anthropic"
    /\ reqPc = "choice"
    /\ reqBody' = Some([ max_tokens |-> reqIn.maxOutputTokens[1],
                         tools |-> reqTools,
                         tool_choice |-> toolChoice,
                         thinking |-> IF reqIn.thinkingEnabled
                                      THEN Some(BudgetTokensSent(reqIn))
                                      ELSE None ])
    /\ reqPc' = "built"
    /\ UNCHANGED <<reqAdapter, reqIn, reqTools, toolChoice, reqError, reqSent, choiceRuns, choiceSaw>>
    /\ UNCHANGED notReqVars

\* fetch(endpoint, { body: JSON.stringify(requestBody) })
ReqFetch ==
    /\ reqAdapter = "anthropic"
    /\ reqPc = "built"
    /\ reqSent' = reqSent + 1
    /\ reqPc' = "sent"
    /\ UNCHANGED <<reqAdapter, reqIn, reqTools, toolChoice, reqBody, reqError, choiceRuns, choiceSaw>>
    /\ UNCHANGED notReqVars

\* GoogleAntigravityProvider.streamChat: const tools = this.normalizeTools(sdkTools)
AgReqNormalizeTools ==
    /\ reqAdapter = "antigravity"
    /\ reqPc = "start"
    /\ reqTools' = normalizeTools(reqIn.tools)
    /\ reqPc' = "tools"
    /\ UNCHANGED <<reqAdapter, reqIn, toolChoice, reqBody, reqError, reqSent, choiceRuns, choiceSaw>>
    /\ UNCHANGED notReqVars

\* const functionCallingConfig = this.buildAntigravityFunctionCallingConfig(...)
AgReqFunctionCallingConfig ==
    /\ reqAdapter = "antigravity"
    /\ reqPc = "tools"
    /\ toolChoice' = buildAntigravityFunctionCallingConfig(reqIn.toolMode, reqTools, reqIn.isClaudeModel)
    /\ choiceRuns' = choiceRuns + 1
    /\ choiceSaw' = reqTools
    /\ reqPc' = "choice"
    /\ UNCHANGED <<reqAdapter, reqIn, reqTools, reqBody, reqError, reqSent>>
    /\ UNCHANGED notReqVars

\* the generation configuration passes the budget check; the payload is built
AgReqThinkingConfig ==
    /\ reqAdapter = "antigravity"
    /\ reqPc = "choice"
    /\ ~AntigravityBudgetRejected(reqIn)
    /\ reqBody' = Some([ max_tokens |-> reqIn.maxOutputTokens,
                         tools |-> reqTools,
                         tool_choice |-> toolChoice,
                         thinking |-> IF AntigravityBudgetChecked(reqIn)
                                      THEN reqIn.budgetTokens
                                      ELSE None ])
    /\ reqPc' = "built"
    /\ UNCHANGED <<reqAdapter, reqIn, reqTools, toolChoice, reqError, reqSent, choiceRuns, choiceSaw>>
    /\ UNCHANGED notReqVars

\* throw new Error('Invalid thinking config: ...')
AgReqThinkingThrew ==
    /\ reqAdapter = "antigravity"
    /\ reqPc = "choice"
    /\ AntigravityBudgetRejected(reqIn)
    /\ reqError' = Some(InvalidThinkingError)
    /\ reqPc' = "failed"
    /\ UNCHANGED <<reqAdapter, reqIn, reqTools, toolChoice, reqBody, reqSent, choiceRuns, choiceSaw>>
    /\ UNCHANGED notReqVars

\* the payload is posted
AgReqFetch ==
    /\ reqAdapter = "antigravity"
    /\ reqPc = "built"
    /\ reqSent' = reqSent + 1
    /\ reqPc' = "sent"
    /\ UNCHANGED <<reqAdapter, reqIn, reqTools, toolChoice, reqBody, reqError, choiceRuns, choiceSaw>>
    /\ UNCHANGED notReqVars

ReqNext ==
    \/ ReqConvertTools
    \/ ReqConvertToolChoice
    \/ ReqToolChoiceThrew
    \/ ReqBuildBody
    \/ ReqFetch
    \/ AgReqNormalizeTools
    \/ AgReqFunctionCallingConfig
    \/ AgReqThinkingConfig
    \/ AgReqThinkingThrew
    \/ AgReqFetch

(***************************************************************************)
(* GoogleAntigravityProvider.normalizeClaudeThinkingToolHistory: the parts  *)
(* of each model-role content are split into thinking parts and other       *)
(* parts, and the content is rewritten thinking first.                      *)
(***************************************************************************)
\* parts of a content: thought-flagged text, a typed thinking block, a block
\* with a thinking string, plain text, a function call
HistParts ==
    { [thought |-> TRUE, type |-> "", thinking |-> None, text |-> "a"],
      [thought |-> FALSE, type |-> "redacted_thinking", thinking |-> None, text |-> ""],
      [thought |-> FALSE, type |-> "", thinking |-> Some("b"), text |-> ""],
      [thought |-> FALSE, type |-> "", thinking |-> None, text |-> "x"],
      [thought |-> FALSE, type |-> "functionCall", thinking |-> None, text |-> "y"] }

isClaudeThinkingPart(part) ==
    \/ part.thought = TRUE
    \/ part.type \in {"thinking", "redacted_thinking", "reasoning"}
    \/ part.thinking # None

HistContents ==
    [role : {"user", "model"}, parts : {<<>>} \cup SeqsUpTo(HistParts, MaxHistParts)]

thinkingPartsOf(ps) == SelectSeq(ps, isClaudeThinkingPart)

IsOtherPart(part) == ~isClaudeThinkingPart(part)

otherPartsOf(ps) == SelectSeq(ps, IsOtherPart)

\* the content is one the loop passes over: not a model content, or no parts
SkippedContent(content) ==
    \/ content.role # "model"
    \/ Len(content.parts) = 0

\* const firstIsThinking = this.isClaudeThinkingPart(parts[0])
firstIsThinking(ps) == isClaudeThinkingPart(ps[1])

HistIdle ==
    /\ contents = <<>>
    /\ contentsIn = <<>>
    /\ histPos = 0
    /\ histPc = "idle"

HistInit ==
    /\ contents \in SeqsUpTo(HistContents, MaxContents)
    /\ contentsIn = contents
    /\ histPos = 1
    /\ histPc = "loop"

\* continue: the content is not a model content or has no parts
HistSkipContent ==
    /\ histPc = "loop"
    /\ histPos <= Len(contents)
    /\ SkippedContent(contents[histPos])
    /\ histPos' = histPos + 1
    /\ UNCHANGED <<contents, contentsIn, histPc>>
    /\ UNCHANGED notHistVars

\* continue: the content has no thinking part
HistNoThinking ==
    /\ histPc = "loop"
    /\ histPos <= Len(contents)
    /\ ~SkippedContent(contents[histPos])
    /\ thinkingPartsOf(contents[histPos].parts) = <<>>
    /\ histPos' = histPos + 1
    /\ UNCHANGED <<contents, contentsIn, histPc>>
    /\ UNCHANGED notHistVars

\* the first part is a thinking part: the content is left as it is
HistFirstIsThinking ==
    /\ histPc = "loop"
    /\ histPos <= Len(contents)
    /\ ~SkippedContent(contents[histPos])
    /\ thinkingPartsOf(contents[histPos].parts) # <<>>
    /\ firstIsThinking(contents[histPos].parts)
    /\ histPos' = histPos + 1
    /\ UNCHANGED <<contents, contentsIn, histPc>>
    /\ UNCHANGED notHistVars

\* content.parts = [...thinkingParts, ...otherParts]
HistReorder ==
    /\ histPc = "loop"
    /\ histPos <= Len(contents)
    /\ ~SkippedContent(contents[histPos])
    /\ thinkingPartsOf(contents[histPos].parts) # <<>>
    /\ ~firstIsThinking(contents[histPos].parts)
    /\ contents' = [contents EXCEPT ![histPos].parts =
            thinkingPartsOf(@) \o otherPartsOf(@)]
    /\ histPos' = histPos + 1
    /\ UNCHANGED <<contentsIn, histPc>>
    /\ UNCHANGED notHistVars

\* the for loop ends
HistReturn ==
    /\ histPc = "loop"
    /\ histPos > Len(contents)
    /\ histPc' = "done"
    /\ UNCHANGED <<contents, contentsIn, histPos>>
    /\ UNCHANGED notHistVars

HistNext ==
    \/ HistSkipContent
    \/ HistNoThinking
    \/ HistFirstIsThinking
    \/ HistReorder
    \/ HistReturn

(***************************************************************************)
(* AnthropicProvider.convertMessages: raw messages to wire messages and a   *)
(* system value, and the system and messages fields of the request body.    *)
(***************************************************************************)
\* the values of vscode.LanguageModelChatMessageRole
RawRoles == {"System", "User", "Assistant"}

\* text parts of a raw message: "s", "t" hold text, " " is blank
RawContents == {<<>>, <<"s">>, <<" ", "t">>}

RawMessages == {<<>>} \cup SeqsUpTo([role : RawRoles, content : RawContents], MaxRaw)

IsNonBlankText(value) == value # " "

\* extractContent: a text part becomes a text block unless its text is blank
extractContent(msg) ==
    LET kept == SelectSeq(msg.content, IsNonBlankText)
    IN  [j \in 1..Len(kept) |-> TextBlock(kept[j])]

\* ensureAlternatingRoles as one call: the loop, then the first-user fix-up
RECURSIVE MergeAllMessages(_, _)
MergeAllMessages(res, ms) ==
    IF ms = <<>> THEN res
    ELSE MergeAllMessages(MergeOrPush(res, ms[1]), Tail(ms))

ensureAlternatingRoles(ms) ==
    IF Len(ms) = 0 THEN <<>> ELSE EnsureFirstUser(MergeAllMessages(<<>>, ms))

ConvIdle ==
    /\ rawMessages = <<>>
    /\ convertedMsgs = <<>>
    /\ system = None
    /\ convPos = 0
    /\ convPc = "idle"
    /\ convBody = None

\* let system = undefined; const convertedMsgs = []
ConvInit ==
    /\ rawMessages \in RawMessages
    /\ convertedMsgs = <<>>
    /\ system = None
    /\ convPos = 1
    /\ convPc = "loop"
    /\ convBody = None

\* a User message: pushed with its content unless the content is empty
ConvUserMessage ==
    /\ convPc = "loop"
    /\ convPos <= Len(rawMessages)
    /\ rawMessages[convPos].role = "User"
    /\ LET content == extractContent(rawMessages[convPos])
       IN  convertedMsgs' = IF Len(content) > 0
                        THEN Append(convertedMsgs, [role |-> "user", content |-> content])
                        ELSE convertedMsgs
    /\ convPos' = convPos + 1
    /\ UNCHANGED <<rawMessages, system, convPc, convBody>>
    /\ UNCHANGED notConvVars

\* an Assistant message: pushed with its content unless the content is empty
ConvAssistantMessage ==
    /\ convPc = "loop"
    /\ convPos <= Len(rawMessages)
    /\ rawMessages[convPos].role = "Assistant"
    /\ LET content == extractContent(rawMessages[convPos])
       IN  convertedMsgs' = IF Len(content) > 0
                        THEN Append(convertedMsgs, [role |-> "assistant", content |-> content])
                        ELSE convertedMsgs
    /\ convPos' = convPos + 1
    /\ UNCHANGED <<rawMessages, system, convPc, convBody>>
    /\ UNCHANGED notConvVars

\* a message of any other role matches neither branch of the loop body
ConvOtherMessage ==
    /\ convPc = "loop"
    /\ convPos <= Len(rawMessages)
    /\ rawMessages[convPos].role \notin {"User", "Assistant"}
    /\ convPos' = convPos + 1
    /\ UNCHANGED <<rawMessages, convertedMsgs, system, convPc, convBody>>
    /\ UNCHANGED notConvVars

\* return { system, messages: this.ensureAlternatingRoles(convertedMsgs) }
ConvReturn ==
    /\ convPc = "loop"
    /\ convPos > Len(rawMessages)
    /\ convertedMsgs' = ensureAlternatingRoles(convertedMsgs)
    /\ convPc' = "converted"
    /\ UNCHANGED <<rawMessages, system, convPos, convBody>>
    /\ UNCHANGED notConvVars

\* streamChat: requestBody = { messages, ... }; if (system) requestBody.system = system
ConvBuildBody ==
    /\ convPc = "converted"
    /\ convBody' = Some([messages |-> convertedMsgs, system |-> system])
    /\ convPc' = "built"
    /\ UNCHANGED <<rawMessages, convertedMsgs, system, convPos>>
    /\ UNCHANGED notConvVars

ConvNext ==
    \/ ConvUserMessage
    \/ ConvAssistantMessage
    \/ ConvOtherMessage
    \/ ConvReturn
    \/ ConvBuildBody

(***************************************************************************)
(* The line framing of AnthropicProvider.parseSSEStream, on the same        *)
(* response bodies as the Antigravity decoder: the buffer is split at       *)
(* newlines, the last piece is kept, and every complete line is handled on  *)
(* its own.                                                                 *)
(***************************************************************************)
\* the line is one the loop passes over: blank, or not starting with data:
LineSkipped(line) ==
    LET trimmed == Trim(line)
    IN  IF Len(trimmed) = 0 THEN TRUE ELSE Head(trimmed) # "D"

\* const data = trimmed.slice(5).trim()
LineData(line) == Trim(Tail(Trim(line)))

\* JSON.parse(data): None when it throws
LineJson(line) == JSONparse(SelectSeq(LineData(line), IsJsonToken))

\* the first complete line of the buffer, and the buffer after it
FirstLine(buf) == SubSeq(buf, 1, NewlineIndex(buf) - 1)

AfterFirstLine(buf) == SubSeq(buf, NewlineIndex(buf) + 1, Len(buf))

LinIdle ==
    /\ linWire = <<>>
    /\ linWireIn = <<>>
    /\ linBuffer = <<>>
    /\ linPc = "idle"
    /\ linEvents = <<>>
    /\ linCancelled = FALSE

\* const reader = response.body.getReader(); let buffer = ''
LinInit ==
    /\ linWire \in Wires
    /\ linWireIn = linWire
    /\ linBuffer = <<>>
    /\ linPc = "top"
    /\ linEvents = <<>>
    /\ linCancelled = FALSE

\* while (!token.isCancellationRequested)
LinLoopTest ==
    /\ linPc = "top"
    /\ linPc' = IF linCancelled THEN "done" ELSE "reading"
    /\ UNCHANGED <<linWire, linWireIn, linBuffer, linEvents, linCancelled>>
    /\ UNCHANGED notLinVars

\* reader.read() resolved with a chunk: buffer += decoder.decode(value)
LinReadChunk ==
    /\ linPc = "reading"
    /\ \E n \in 1..Len(linWire) :
        /\ linBuffer' = AppendChunk(linBuffer, SubSeq(linWire, 1, n))
        /\ linWire' = SubSeq(linWire, n + 1, Len(linWire))
    /\ linPc' = "lines"
    /\ UNCHANGED <<linWireIn, linEvents, linCancelled>>
    /\ UNCHANGED notLinVars

\* reader.read() resolved with done: break; what is left in the buffer is dropped
LinReadDone ==
    /\ linPc = "reading"
    /\ Len(linWire) = 0
    /\ linPc' = "done"
    /\ UNCHANGED <<linWire, linWireIn, linBuffer, linEvents, linCancelled>>
    /\ UNCHANGED notLinVars

\* reader.read() rejected: the connection failed, or the request was aborted
LinReadRejected ==
    /\ linPc = "reading"
    /\ linPc' = "failed"
    /\ UNCHANGED <<linWire, linWireIn, linBuffer, linEvents, linCancelled>>
    /\ UNCHANGED notLinVars

\* a line that is blank or does not start with data: continue
LinLineSkipped ==
    /\ linPc = "lines"
    /\ NewlineIndex(linBuffer) > 0
    /\ LineSkipped(FirstLine(linBuffer))
    /\ linBuffer' = AfterFirstLine(linBuffer)
    /\ UNCHANGED <<linWire, linWireIn, linPc, linEvents, linCancelled>>
    /\ UNCHANGED notLinVars

\* if (data === '[DONE]') return
LinLineDone ==
    /\ linPc = "lines"
    /\ NewlineIndex(linBuffer) > 0
    /\ ~LineSkipped(FirstLine(linBuffer))
    /\ LineData(FirstLine(linBuffer)) = <<"E">>
    /\ linBuffer' = AfterFirstLine(linBuffer)
    /\ linPc' = "done"
    /\ UNCHANGED <<linWire, linWireIn, linEvents, linCancelled>>
    /\ UNCHANGED notLinVars

\* const event = JSON.parse(data): the event goes to the handlers
LinLineEvent ==
    /\ linPc = "lines"
    /\ NewlineIndex(linBuffer) > 0
    /\ ~LineSkipped(FirstLine(linBuffer))
    /\ LineData(FirstLine(linBuffer)) # <<"E">>
    /\ LineJson(FirstLine(linBuffer)) # None
    /\ linEvents' = Append(linEvents, LineJson(FirstLine(linBuffer))[1])
    /\ linBuffer' = AfterFirstLine(linBuffer)
    /\ UNCHANGED <<linWire, linWireIn, linPc, linCancelled>>
    /\ UNCHANGED notLinVars

\* JSON.parse(data) throws: catch, "Skip invalid JSON lines"
LinLineInvalid ==
    /\ linPc = "lines"
    /\ NewlineIndex(linBuffer) > 0
    /\ ~LineSkipped(FirstLine(linBuffer))
    /\ LineData(FirstLine(linBuffer)) # <<"E">>
    /\ LineJson(FirstLine(linBuffer)) = None
    /\ linBuffer' = AfterFirstLine(linBuffer)
    /\ UNCHANGED <<linWire, linWireIn, linPc, linEvents, linCancelled>>
    /\ UNCHANGED notLinVars

\* the for loop over the complete lines ends: back to the loop test
LinLinesEnd ==
    /\ linPc = "lines"
    /\ NewlineIndex(linBuffer) = 0
    /\ linPc' = "top"
    /\ UNCHANGED <<linWire, linWireIn, linBuffer, linEvents, linCancelled>>
    /\ UNCHANGED notLinVars

\* the cancellation token fires while the parser awaits reader.read()
LinCancel ==
    /\ linPc = "reading"
    /\ ~linCancelled
    /\ linCancelled' = TRUE
    /\ UNCHANGED <<linWire, linWireIn, linBuffer, linPc, linEvents>>
    /\ UNCHANGED notLinVars

LinNext ==
    \/ LinLoopTest
    \/ LinReadChunk
    \/ LinReadDone
    \/ LinReadRejected
    \/ LinLineSkipped
    \/ LinLineDone
    \/ LinLineEvent
    \/ LinLineInvalid
    \/ LinLinesEnd
    \/ LinCancel

(***************************************************************************)
(* calculateBackoffDelay and the waits of fetchWithRetry. Math.random() is  *)
(* r / JitterGrid for r in 0..JitterGrid-1; jitterFactor is given in        *)
(* hundredths; the arithmetic is exact (fractions over 100 * JitterGrid).   *)
(***************************************************************************)
RECURSIVE Pow(_, _)
Pow(b, e) == IF e = 0 THEN 1 ELSE b * Pow(b, e - 1)

\* DEFAULT_RETRY_CONFIG, without maxRetries
DEFAULT_RETRY_CONFIG ==
    [initialDelayMs |-> 1000, maxDelayMs |-> 60000, backoffMultiplier |-> 2, jitterPct |-> 10]

\* the configurations a caller passes as retryConfig
BackoffConfigs ==
    {DEFAULT_RETRY_CONFIG}
    \cup [initialDelayMs : {1, 6, 1000}, maxDelayMs : {4, 60000},
          backoffMultiplier : {1, 2}, jitterPct : {0, 10, 50, 100}]

\* Math.min(exponentialDelay, config.maxDelayMs)
cappedDelay(att, config) ==
    Min2(config.initialDelayMs * Pow(config.backoffMultiplier, att), config.maxDelayMs)

\* the delay without the cap at maxDelayMs
calculateBackoffDelayUncapped(att, config, r) ==
    LET capped == config.initialDelayMs * Pow(config.backoffMultiplier, att)
        den == 100 * JitterGrid
        num == capped * den + (2 * r - JitterGrid) * capped * config.jitterPct
    IN  (2 * num + den) \div (2 * den)

\* Math.round(cappedDelay + (Math.random() * 2 - 1) * cappedDelay * jitterFactor)
calculateBackoffDelay(att, config, r) ==
    LET capped == cappedDelay(att, config)
        den == 100 * JitterGrid
        num == capped * den + (2 * r - JitterGrid) * capped * config.jitterPct
    IN  (2 * num + den) \div (2 * den)

BoIdle ==
    /\ boConfig = None
    /\ boAttempt = 0
    /\ boDelayMs = None
    /\ boDelayAttempt = 0

BoInit ==
    /\ boConfig \in {Some(c) : c \in BackoffConfigs}
    /\ boAttempt = 0
    /\ boDelayMs = None
    /\ boDelayAttempt = 0

\* a retryable response with attempt < maxRetries: the delay is computed and
\* awaited, then attempt++
BoRetry ==
    /\ boConfig # None
    /\ boAttempt < MaxBackoffAttempts
    /\ \E r \in 0..(JitterGrid - 1) :
          boDelayMs' = Some(calculateBackoffDelay(boAttempt, boConfig[1], r))
    /\ boDelayAttempt' = boAttempt
    /\ boAttempt' = boAttempt + 1
    /\ UNCHANGED boConfig
    /\ UNCHANGED notBoVars

BoNext == BoRetry

(***************************************************************************)
(* Tool names on the wire. A name is a sequence of characters, each given   *)
(* by its class: "a" a letter, "1" a digit, "_" the underscore, "." one of  *)
(* . : -, " " white space, "%" any other ASCII character, "x80" a character *)
(* outside ASCII.                                                           *)
(***************************************************************************)
NameChars == {"a", "1", "_", ".", " ", "%", "x80"}

\* [a-zA-Z0-9_.:-]
AllowedNameChars == {"a", "1", "_", "."}

\* [a-zA-Z_]
LeadingNameChars == {"a", "_"}

RECURSIVE Letters(_)
Letters(n) == IF n = 0 THEN <<>> ELSE <<"a">> \o Letters(n - 1)

\* the names explored: any few characters, followed by a run of letters that
\* brings the length below, onto or over the limit
WireToolNames ==
    {h \o Letters(n) :
        h \in {<<>>} \cup SeqsUpTo(NameChars, MaxNameHead),
        n \in {0, MAX_TOOL_NAME_LENGTH - 1, MAX_TOOL_NAME_LENGTH, MAX_TOOL_NAME_LENGTH + 1}}

\* trimmed.replace(/[^a-zA-Z0-9_.:-]/g, '_')
replaceDisallowed(name) ==
    [i \in DOMAIN name |-> IF name[i] \in AllowedNameChars THEN name[i] ELSE "_"]

sanitizeAntigravityToolName(name) ==
    LET trimmed == Trim(name)
    IN  IF Len(trimmed) = 0 THEN <<"_">>
        ELSE LET replaced == replaceDisallowed(trimmed)
                 prefixed == IF replaced[1] \in LeadingNameChars
                             THEN replaced ELSE <<"_">> \o replaced
             IN  IF Len(prefixed) > MAX_TOOL_NAME_LENGTH
                 THEN SubSeq(prefixed, 1, MAX_TOOL_NAME_LENGTH)
                 ELSE prefixed

TnIdle ==
    /\ tnAdapter = "none"
    /\ tnName = <<>>
    /\ tnWire = None

TnInit ==
    /\ tnAdapter \in {"anthropic", "antigravity"}
    /\ tnName \in WireToolNames
    /\ tnWire = None

\* normalizeTools: name: sanitizeAntigravityToolName(name)
TnNormalizeTools ==
    /\ tnAdapter = "antigravity"
    /\ tnWire = None
    /\ tnWire' = Some(sanitizeAntigravityToolName(tnName))
    /\ UNCHANGED <<tnAdapter, tnName, notTnVars>>

\* convertTools: result.push({ name: tool.name, ... })
TnConvertTools ==
    /\ tnAdapter = "anthropic"
    /\ tnWire = None
    /\ tnWire' = Some(tnName)
    /\ UNCHANGED <<tnAdapter, tnName, notTnVars>>

TnNext == TnNormalizeTools \/ TnConvertTools

(***************************************************************************)
(* AnthropicProvider.extractContent with its cache-control markers. A text  *)
(* is "s" (not blank), " " (blank) or "" (empty). The content of a tool     *)
(* result is a sequence of "s" / " " (text parts) and "M" (a cache-control  *)
(* marker); its converted form is the sequence of inner blocks, the empty   *)
(* sequence standing for the empty string the code returns for no blocks.   *)
(***************************************************************************)
ContentBlock(type, text, cacheControl, content) ==
    [type |-> type, text |-> text, cache_control |-> cacheControl, content |-> content]

\* { type: 'text', text: ' ', cache_control: { type: 'ephemeral' } }
PlaceholderBlock == ContentBlock("text", " ", TRUE, <<>>)

contentBlockSupportsCacheControlAll(block) == TRUE

contentBlockSupportsCacheControl(block) ==
    /\ block.type # "thinking"
    /\ block.type # "redacted_thinking"
    /\ block.type # "server_tool_use"
    /\ block.type # "web_search_tool_result"

\* part.value.trim()
TrimIsTruthy(value) == value \notin {"", " "}

RECURSIVE extractToolResultContent(_)
extractToolResultContent(content) ==
    IF Len(content) = 0 THEN <<>>
    ELSE LET blocks == extractToolResultContent(SubSeq(content, 1, Len(content) - 1))
             inner == content[Len(content)]
         IN  IF inner = "M" THEN Append(blocks, PlaceholderBlock)
             ELSE IF TrimIsTruthy(inner)
             THEN Append(blocks, ContentBlock("text", inner, FALSE, <<>>))
             ELSE blocks

ToolResultContents == {<<>>, <<"M">>, <<"s", "M">>, <<" ", "M", "M">>}

MessageParts ==
    [kind : {"text"}, value : {"s", " "}]
        \cup [kind : {"thinking"}, value : {"redacted", "complete", "incremental"}]
        \cup [kind : {"tool_call"}, value : {"call"}]
        \cup [kind : {"tool_result"}, value : ToolResultContents]
        \cup [kind : {"data"}, value : {"cache_control", "stateful_marker", "image", "other"}]

\* isCacheControlMarker(part)
isCacheControlMarker(part) == part.kind = "data" /\ part.value = "cache_control"

CcIdle ==
    /\ ccParts = <<>>
    /\ ccPos = 0
    /\ ccBlocks = <<>>
    /\ ccPc = "idle"
    /\ ccBefore = <<>>

CcInit ==
    /\ ccParts \in {<<>>} \cup SeqsUpTo(MessageParts, MaxCcParts)
    /\ ccPos = 0
    /\ ccBlocks = <<>>
    /\ ccPc = "loop"
    /\ ccBefore = <<>>

CcPart == ccParts[ccPos + 1]

CcHandled(kind) ==
    /\ ccPc = "loop"
    /\ ccPos < Len(ccParts)
    /\ CcPart.kind = kind
    /\ ccPos' = ccPos + 1
    /\ ccBefore' = ccBlocks
    /\ UNCHANGED <<ccParts, notCcVars>>

\* part instanceof LanguageModelTextPart
CcTextPart ==
    /\ CcHandled("text")
    /\ ccBlocks' = IF TrimIsTruthy(CcPart.value)
                   THEN Append(ccBlocks, ContentBlock("text", CcPart.value, FALSE, <<>>))
                   ELSE ccBlocks
    /\ UNCHANGED ccPc

\* part instanceof LanguageModelThinkingPart
CcThinkingPart ==
    /\ CcHandled("thinking")
    /\ ccBlocks' = IF CcPart.value = "redacted"
                   THEN Append(ccBlocks, ContentBlock("redacted_thinking", "", FALSE, <<>>))
                   ELSE IF CcPart.value = "complete"
                   THEN Append(ccBlocks, ContentBlock("thinking", "", FALSE, <<>>))
                   ELSE ccBlocks
    /\ UNCHANGED ccPc

\* part instanceof LanguageModelToolCallPart
CcToolCallPart ==
    /\ CcHandled("tool_call")
    /\ ccBlocks' = Append(ccBlocks, ContentBlock("tool_use", "", FALSE, <<>>))
    /\ UNCHANGED ccPc

\* part instanceof LanguageModelToolResultPart
CcToolResultPart ==
    /\ CcHandled("tool_result")
    /\ ccBlocks' = Append(ccBlocks,
                          ContentBlock("tool_result", "", FALSE,
                                       extractToolResultContent(CcPart.value)))
    /\ UNCHANGED ccPc

\* a data part that is a cache-control marker
CcCacheControlMarker ==
    /\ CcHandled("data")
    /\ isCacheControlMarker(CcPart)
    /\ ccBlocks' =
          IF Len(ccBlocks) > 0
          THEN (IF contentBlockSupportsCacheControl(ccBlocks[Len(ccBlocks)])
                THEN [ccBlocks EXCEPT ![Len(ccBlocks)].cache_control = TRUE]
                ELSE Append(ccBlocks, PlaceholderBlock))
          ELSE Append(ccBlocks, PlaceholderBlock)
    /\ UNCHANGED ccPc

\* a stateful marker is skipped
CcStatefulMarker ==
    /\ CcHandled("data")
    /\ CcPart.value = "stateful_marker"
    /\ UNCHANGED <<ccBlocks, ccPc>>

\* an image/... data part
CcImagePart ==
    /\ CcHandled("data")
    /\ CcPart.value = "image"
    /\ ccBlocks' = Append(ccBlocks, ContentBlock("image", "", FALSE, <<>>))
    /\ UNCHANGED ccPc

\* any other mime type: throw new Error('Unsupported mime type ...')
CcUnsupportedMime ==
    /\ ccPc = "loop"
    /\ ccPos < Len(ccParts)
    /\ CcPart.kind = "data"
    /\ CcPart.value = "other"
    /\ ccPc' = "threw"
    /\ UNCHANGED <<ccParts, ccPos, ccBlocks, ccBefore, notCcVars>>

\* return blocks
CcReturn ==
    /\ ccPc = "loop"
    /\ ccPos = Len(ccParts)
    /\ ccPc' = "returned"
    /\ UNCHANGED <<ccParts, ccPos, ccBlocks, ccBefore, notCcVars>>

CcNext ==
    \/ CcTextPart
    \/ CcThinkingPart
    \/ CcToolCallPart
    \/ CcToolResultPart
    \/ CcCacheControlMarker
    \/ CcStatefulMarker
    \/ CcImagePart
    \/ CcUnsupportedMime
    \/ CcReturn

(***************************************************************************)
(* The capability matrix: isFeatureSupported. Strings are sequences of      *)
(* characters; an optional list of a feature is None or <<list>>; a custom  *)
(* checker is given by the value it returns for the model and provider at   *)
(* hand; getBaseModelId(model.id) is given with the model.                  *)
(***************************************************************************)
\* s.includes(v)
includes(s, v) ==
    \E i \in 0..(Len(s) - Len(v)) : SubSeq(s, i + 1, i + Len(v)) = v

RECURSIVE matchProviderPattern(_, _)
\* a wildcard pattern: every character stands for itself, "*" for any text
matchProviderPattern(url, pattern) ==
    IF Len(pattern) = 0 THEN Len(url) = 0
    ELSE IF Head(pattern) = "*"
         THEN \E k \in 0..Len(url) :
                 matchProviderPattern(SubSeq(url, k + 1, Len(url)), Tail(pattern))
         ELSE IF Len(url) = 0 THEN FALSE
              ELSE IF Head(url) = Head(pattern)
                   THEN matchProviderPattern(Tail(url), Tail(pattern))
                   ELSE FALSE

\* list?.some(test)
SomeOf(list, test(_)) ==
    IF list = None THEN FALSE ELSE \E i \in 1..Len(list[1]) : test(list[1][i])

isFeatureSupportedFamilyOnly(feature, provider, model) ==
    IF feature = None THEN FALSE
    ELSE LET f == feature[1]
             IsTrue(checker) == checker
             MatchesUrl(pattern) == matchProviderPattern(provider, pattern)
             InBaseId(v) == includes(model.baseId, v)
         IN  IF SomeOf(f.customCheckers, IsTrue) THEN TRUE
             ELSE IF SomeOf(f.supportedProviders, MatchesUrl) THEN TRUE
             ELSE IF Len(model.baseId) > 0 /\ SomeOf(f.supportedModels, InBaseId) THEN TRUE
             ELSE IF model.family = None THEN FALSE
             ELSE LET InFamily(v) == includes(model.family[1], v)
                  IN  Len(model.family[1]) > 0 /\ SomeOf(f.supportedFamilys, InFamily)

isFeatureSupported(feature, provider, model) ==
    IF feature = None THEN FALSE
    ELSE LET f == feature[1]
             IsTrue(checker) == checker
             MatchesUrl(pattern) == matchProviderPattern(provider, pattern)
             InBaseId(v) == includes(model.baseId, v)
             family == IF model.family # None THEN model.family[1] ELSE model.baseId
             InFamily(v) == includes(family, v)
         IN  IF SomeOf(f.customCheckers, IsTrue) THEN TRUE
             ELSE IF SomeOf(f.supportedProviders, MatchesUrl) THEN TRUE
             ELSE IF Len(model.baseId) > 0 /\ SomeOf(f.supportedModels, InBaseId) THEN TRUE
             ELSE Len(family) > 0 /\ SomeOf(f.supportedFamilys, InFamily)

CheckerLists == {None, Some(<<FALSE>>), Some(<<FALSE, TRUE>>)}
PatternLists == {None, Some(<<<<"u">>>>), Some(<<<<"v", "*">>, <<"*", "u", "u">>>>)}
SubstringLists == {None, Some(<<<<"x">>>>), Some(<<<<"y", "y">>, <<"x", "y">>>>), Some(<<<<>>>>)}
ModelNames == {<<>>, <<"x">>, <<"y">>, <<"x", "y">>}
BaseUrls == {<<"u">>, <<"v">>, <<"v", "u">>}

Features ==
    [customCheckers : CheckerLists, supportedProviders : PatternLists,
     supportedModels : SubstringLists, supportedFamilys : SubstringLists]

FtIdle ==
    /\ ftFeature = None
    /\ ftModel = [baseId |-> <<>>, family |-> None]
    /\ ftBaseUrl = <<>>
    /\ ftResult = None

FtInit ==
    /\ ftFeature \in {None} \cup {Some(f) : f \in Features}
    /\ ftModel \in [baseId : ModelNames, family : {None} \cup {Some(n) : n \in ModelNames}]
    /\ ftBaseUrl \in BaseUrls
    /\ ftResult = None

FtCall ==
    /\ ftResult = None
    /\ ftResult' = Some(isFeatureSupported(ftFeature, ftBaseUrl, ftModel))
    /\ UNCHANGED <<ftFeature, ftModel, ftBaseUrl, notFtVars>>

FtNext == FtCall

(***************************************************************************)
(* Model listing: AnthropicProvider.getAvailableModels. A page is the       *)
(* answer to one GET /v1/models: not ok, or a list of model ids with        *)
(* has_more and last_id (None for null).                                    *)
(***************************************************************************)
ModelIds == {"m1", "m2"}

OkPages ==
    [ok : {TRUE}, data : {<<"m1">>, <<"m2", "m1">>}, has_more : BOOLEAN,
     last_id : {None} \cup {Some(id) : id \in ModelIds}]

FailedPage == [ok |-> FALSE, data |-> <<>>, has_more |-> FALSE, last_id |-> None]

ListPages == OkPages \cup {FailedPage}

\* the scripts explored end with an answer that stops the listing
PageScripts ==
    {s \in SeqsUpTo(ListPages, MaxPages) : ~s[Len(s)].ok \/ ~s[Len(s)].has_more}

\* toModelsUrl(baseUrl, afterId): the after_id parameter of the URL, if any
toModelsUrl(afterId) == afterId

hasNextPageIgnoringHasMore(data) == data.last_id # None

\* data.has_more && data.last_id
hasNextPage(data) == data.has_more /\ data.last_id # None

LmIdle ==
    /\ lmPages = <<>>
    /\ lmAfterId = None
    /\ lmAllModels = <<>>
    /\ lmRequests = <<>>
    /\ lmPc = "idle"

LmInit ==
    /\ lmPages \in PageScripts
    /\ lmAfterId = None
    /\ lmAllModels = <<>>
    /\ lmRequests = <<>>
    /\ lmPc = "loop"

LmAnswer == lmPages[Len(lmRequests)]

\* const response = await fetch(toModelsUrl(this.config.baseUrl, afterId), ...)
LmFetch ==
    /\ lmPc = "loop"
    /\ Len(lmRequests) < Len(lmPages)
    /\ lmRequests' = Append(lmRequests, toModelsUrl(lmAfterId))
    /\ lmPc' = "awaiting"
    /\ UNCHANGED <<lmPages, lmAfterId, lmAllModels, notLmVars>>

\* if (!response.ok) throw
LmNotOk ==
    /\ lmPc = "awaiting"
    /\ ~LmAnswer.ok
    /\ lmPc' = "threw"
    /\ UNCHANGED <<lmPages, lmAfterId, lmAllModels, lmRequests, notLmVars>>

\* the models of the page are pushed and the loop goes on with afterId
LmNextPage ==
    /\ lmPc = "awaiting"
    /\ LmAnswer.ok
    /\ hasNextPage(LmAnswer)
    /\ lmAllModels' = lmAllModels \o LmAnswer.data
    /\ lmAfterId' = LmAnswer.last_id
    /\ lmPc' = "loop"
    /\ UNCHANGED <<lmPages, lmRequests, notLmVars>>

\* the models of the page are pushed, break, return allModels
LmLastPage ==
    /\ lmPc = "awaiting"
    /\ LmAnswer.ok
    /\ ~hasNextPage(LmAnswer)
    /\ lmAllModels' = lmAllModels \o LmAnswer.data
    /\ lmPc' = "returned"
    /\ UNCHANGED <<lmPages, lmAfterId, lmRequests, notLmVars>>

LmNext == LmFetch \/ LmNotOk \/ LmNextPage \/ LmLastPage

(***************************************************************************)
(* The dispatch service and the stored provider configuration:              *)
(* findProviderAndModel, resolveProvider, getClient, then the adapter. The  *)
(* apiKey field of a stored provider is "unset", "plain" (a key written in  *)
(* the settings), "ref" (a reference into the secret store) or "entered"    *)
(* (the key typed at the prompt).                                           *)
(***************************************************************************)
ProviderNames == {"p", "q"}

StoredApiKeys == {"unset", "plain", "ref"}

\* apiKeyStore.getStatus(provider.apiKey)
getStatus(apiKey, name) ==
    IF apiKey = "unset" THEN "unset"
    ELSE IF apiKey \in {"plain", "entered"} THEN "plain"
    ELSE IF name \in cfgSecrets THEN "secret" ELSE "missing"

endpointsWithApiKeyForAll(endpoints, name, apiKey) ==
    [n \in DOMAIN endpoints |-> apiKey]

\* endpoints.map((p) => p.name === provider.name ? { ...p, apiKey } : p)
endpointsWithApiKey(endpoints, name, apiKey) ==
    [n \in DOMAIN endpoints |-> IF n = name THEN apiKey ELSE endpoints[n]]

CfgIdle ==
    /\ cfgEndpoints = [n \in ProviderNames |-> "unset"]
    /\ cfgSecrets = {}
    /\ cfgStoreInSettings = FALSE
    /\ cfgClients = {}
    /\ cfgRequest = "none"
    /\ cfgProvider = None
    /\ cfgPc = "idle"

CfgInit ==
    /\ cfgEndpoints \in [ProviderNames -> StoredApiKeys]
    /\ cfgSecrets \in SUBSET {n \in ProviderNames : cfgEndpoints[n] = "ref"}
    /\ cfgStoreInSettings \in BOOLEAN
    /\ cfgClients \in SUBSET ProviderNames
    /\ cfgRequest \in {"chat", "count"}
    /\ cfgProvider = None
    /\ cfgPc = "start"

CfgStatus == getStatus(cfgEndpoints[cfgProvider[1]], cfgProvider[1])

CfgFrame == UNCHANGED <<cfgStoreInSettings, cfgRequest, notCfgVars>>

\* findProviderAndModel finds the provider and the model
CfgFound ==
    /\ cfgPc = "start"
    /\ \E n \in ProviderNames : cfgProvider' = Some(n)
    /\ cfgPc' = "resolve"
    /\ UNCHANGED <<cfgEndpoints, cfgSecrets, cfgClients>>
    /\ CfgFrame

\* findProviderAndModel returns null: the chat request throws, the count
\* falls back to the default estimate
CfgNotFound ==
    /\ cfgPc = "start"
    /\ cfgPc' = IF cfgRequest = "chat" THEN "threw" ELSE "done"
    /\ UNCHANGED <<cfgEndpoints, cfgSecrets, cfgClients, cfgProvider>>
    /\ CfgFrame

\* status.kind is 'unset', 'plain' or 'secret': the provider is returned
CfgResolved ==
    /\ cfgPc = "resolve"
    /\ CfgStatus \in {"unset", "plain", "secret"}
    /\ cfgPc' = "client"
    /\ UNCHANGED <<cfgEndpoints, cfgSecrets, cfgClients, cfgProvider>>
    /\ CfgFrame

\* the key is missing and the user does not confirm, or enters nothing
CfgKeyNotEntered ==
    /\ cfgPc = "resolve"
    /\ CfgStatus = "missing"
    /\ cfgPc' = "threw"
    /\ UNCHANGED <<cfgEndpoints, cfgSecrets, cfgClients, cfgProvider>>
    /\ CfgFrame

\* the key is entered and storeApiKeyInSettings is set:
\* await this.configStore.setEndpoints(updated); this.clients.delete(name)
CfgStoreKeyInSettings ==
    /\ cfgPc = "resolve"
    /\ CfgStatus = "missing"
    /\ cfgStoreInSettings
    /\ cfgEndpoints' = endpointsWithApiKey(cfgEndpoints, cfgProvider[1], "entered")
    /\ cfgClients' = cfgClients \ {cfgProvider[1]}
    /\ cfgPc' = "client"
    /\ UNCHANGED <<cfgSecrets, cfgProvider>>
    /\ CfgFrame

\* the key is entered and kept in the secret store:
\* await this.apiKeyStore.set(status.ref, apiKey); this.clients.delete(name)
CfgStoreKeyInSecretStore ==
    /\ cfgPc = "resolve"
    /\ CfgStatus = "missing"
    /\ ~cfgStoreInSettings
    /\ cfgSecrets' = cfgSecrets \cup {cfgProvider[1]}
    /\ cfgClients' = cfgClients \ {cfgProvider[1]}
    /\ cfgPc' = "client"
    /\ UNCHANGED <<cfgEndpoints, cfgProvider>>
    /\ CfgFrame

\* getClient(provider)
CfgGetClient ==
    /\ cfgPc = "client"
    /\ cfgClients' = cfgClients \cup {cfgProvider[1]}
    /\ cfgPc' = "adapter"
    /\ UNCHANGED <<cfgEndpoints, cfgSecrets, cfgProvider>>
    /\ CfgFrame

\* client.streamChat(...) consumed to its end, or client.estimateTokenCount
CfgAdapter ==
    /\ cfgPc = "adapter"
    /\ cfgPc' = "done"
    /\ UNCHANGED <<cfgEndpoints, cfgSecrets, cfgClients, cfgProvider>>
    /\ CfgFrame

CfgNext ==
    \/ CfgFound
    \/ CfgNotFound
    \/ CfgResolved
    \/ CfgKeyNotEntered
    \/ CfgStoreKeyInSettings
    \/ CfgStoreKeyInSecretStore
    \/ CfgGetClient
    \/ CfgAdapter

(***************************************************************************)
(* Two requests in flight. Both use the client that getClient caches for    *)
(* the provider; each call of parseSSEStream declares its own buffer and    *)
(* accumulators. The events of request r carry the tool-call id and the     *)
(* argument fragments of request r.                                         *)
(***************************************************************************)
ChatRequests == {1, 2}

CqEvents(r) ==
    {[type |-> "start", id |-> r, json |-> <<>>],
     [type |-> "delta", id |-> r, json |-> <<r>>],
     [type |-> "stop", id |-> r, json |-> <<>>]}

CqWires(r) == {<<>>} \cup SeqsUpTo(CqEvents(r), MaxCqEvents)

\* let currentToolCall = null; the parts yielded so far
NewLocals == [currentToolCall |-> None, yielded |-> <<>>]

\* one event handled by one call: content_block_start of a tool_use block,
\* an input_json_delta, content_block_stop
handleToolEvent(locals, event) ==
    IF event.type = "start"
    THEN [locals EXCEPT !.currentToolCall = Some([id |-> event.id, inputJson |-> <<>>])]
    ELSE IF event.type = "delta"
    THEN (IF locals.currentToolCall # None
          THEN [locals EXCEPT !.currentToolCall =
                   Some([id |-> locals.currentToolCall[1].id,
                         inputJson |-> Accumulate(locals.currentToolCall[1].inputJson,
                                                  event.json)])]
          ELSE locals)
    ELSE IF locals.currentToolCall # None
         THEN [currentToolCall |-> None,
               yielded |-> Append(locals.yielded, locals.currentToolCall[1])]
         ELSE locals

localsOfFirstCall(all, r) == all[1]

\* the locals a call of parseSSEStream works on: its own
localsOf(all, r) == all[r]

CqIdle ==
    /\ cqClients = {}
    /\ cqWire = [r \in ChatRequests |-> <<>>]
    /\ cqPos = [r \in ChatRequests |-> 0]
    /\ cqPc = [r \in ChatRequests |-> "idle"]
    /\ cqLocals = [r \in ChatRequests |-> NewLocals]

CqInit ==
    /\ cqClients = {}
    /\ cqWire \in {w \in [ChatRequests -> UNION {CqWires(r) : r \in ChatRequests}] :
                       \A r \in ChatRequests : w[r] \in CqWires(r)}
    /\ cqPos = [r \in ChatRequests |-> 0]
    /\ cqPc = [r \in ChatRequests |-> "start"]
    /\ cqLocals = [r \in ChatRequests |-> NewLocals]

\* getClient(provider), then streamChat up to the first read of the body
CqGetClient(r) ==
    /\ cqPc[r] = "start"
    /\ cqClients' = cqClients \cup {"provider"}
    /\ cqPc' = [cqPc EXCEPT ![r] = "streaming"]
    /\ cqLocals' = [cqLocals EXCEPT ![r] = NewLocals]
    /\ UNCHANGED <<cqWire, cqPos, notCqVars>>

\* a chunk of request r arrives and its event is handled
CqChunk(r) ==
    /\ cqPc[r] = "streaming"
    /\ cqPos[r] < Len(cqWire[r])
    /\ cqLocals' = [cqLocals EXCEPT
                      ![r] = handleToolEvent(localsOf(cqLocals, r), cqWire[r][cqPos[r] + 1])]
    /\ cqPos' = [cqPos EXCEPT ![r] = cqPos[r] + 1]
    /\ UNCHANGED <<cqClients, cqWire, cqPc, notCqVars>>

CqNext == \E r \in ChatRequests : CqGetClient(r) \/ CqChunk(r)

(***************************************************************************)
(* The cancellation listener of streamChat, in both adapters: registered    *)
(* first, disposed in the finally of the try that starts after the request  *)
(* has been built.                                                          *)
(***************************************************************************)
LsIdle ==
    /\ lsAdapter = "none"
    /\ lsBuild = "ok"
    /\ lsCancelledAtEntry = FALSE
    /\ lsReply = "ok"
    /\ lsListeners = 0
    /\ lsYielded = 0
    /\ lsPc = "idle"

LsInit ==
    /\ lsAdapter \in {"anthropic", "antigravity"}
    /\ lsBuild \in {"ok", "throws"}
    /\ lsCancelledAtEntry \in BOOLEAN
    /\ lsReply \in {"ok", "httpError", "rejected"}
    /\ lsListeners = 0
    /\ lsYielded = 0
    /\ lsPc = "called"

LsInputs == <<lsAdapter, lsBuild, lsCancelledAtEntry, lsReply>>

\* cancellationListener.dispose()
dispose(listeners) == IF listeners > 0 THEN listeners - 1 ELSE 0

\* const cancellationListener = token.onCancellationRequested(...)
LsRegister ==
    /\ lsPc = "called"
    /\ lsListeners' = lsListeners + 1
    /\ lsPc' = "registered"
    /\ UNCHANGED <<LsInputs, lsYielded, notLsVars>>

\* Antigravity: if (token.isCancellationRequested) { abort; dispose; return }
LsAlreadyCancelled ==
    /\ lsPc = "registered"
    /\ lsAdapter = "antigravity"
    /\ lsCancelledAtEntry
    /\ lsListeners' = dispose(lsListeners)
    /\ lsPc' = "returned"
    /\ UNCHANGED <<LsInputs, lsYielded, notLsVars>>

LsBuilding ==
    /\ lsPc = "registered"
    /\ IF lsAdapter = "antigravity" THEN ~lsCancelledAtEntry ELSE TRUE

\* the request is built before the try: Anthropic convertToolChoice throws
\* for an invalid tool mode, Antigravity throws for an invalid thinking
\* configuration
LsBuildThrew ==
    /\ LsBuilding
    /\ lsBuild = "throws"
    /\ lsPc' = "threw"
    /\ UNCHANGED <<LsInputs, lsListeners, lsYielded, notLsVars>>

\* the request is built and the try block is entered
LsBuilt ==
    /\ LsBuilding
    /\ lsBuild = "ok"
    /\ lsPc' = "try"
    /\ UNCHANGED <<LsInputs, lsListeners, lsYielded, notLsVars>>

\* await fetch(...) answers with an ok response
LsFetchOk ==
    /\ lsPc = "try"
    /\ lsReply = "ok"
    /\ lsPc' = "streaming"
    /\ UNCHANGED <<LsInputs, lsListeners, lsYielded, notLsVars>>

\* the response is not ok, or the fetch rejects: thrown inside the try, the
\* finally disposes
LsFetchFailed ==
    /\ lsPc = "try"
    /\ lsReply \in {"httpError", "rejected"}
    /\ lsListeners' = dispose(lsListeners)
    /\ lsPc' = "threw"
    /\ UNCHANGED <<LsInputs, lsYielded, notLsVars>>

\* a part is yielded: the generator is suspended inside the try
LsYield ==
    /\ lsPc = "streaming"
    /\ lsYielded < MaxLsParts
    /\ lsYielded' = lsYielded + 1
    /\ lsPc' = "suspended"
    /\ UNCHANGED <<LsInputs, lsListeners, notLsVars>>

\* the consumer asks for the next part
LsConsumerNext ==
    /\ lsPc = "suspended"
    /\ lsPc' = "streaming"
    /\ UNCHANGED <<LsInputs, lsListeners, lsYielded, notLsVars>>

\* the consumer stops early: the generator's return() runs the finally
LsConsumerReturn ==
    /\ lsPc = "suspended"
    /\ lsListeners' = dispose(lsListeners)
    /\ lsPc' = "returned"
    /\ UNCHANGED <<LsInputs, lsYielded, notLsVars>>

\* the stream ends, normally or after a cancellation
LsStreamEnd ==
    /\ lsPc = "streaming"
    /\ lsListeners' = dispose(lsListeners)
    /\ lsPc' = "returned"
    /\ UNCHANGED <<LsInputs, lsYielded, notLsVars>>

\* the stream fails (a stream error, or the abort of a pending read)
LsStreamThrew ==
    /\ lsPc = "streaming"
    /\ lsListeners' = dispose(lsListeners)
    /\ lsPc' = "threw"
    /\ UNCHANGED <<LsInputs, lsYielded, notLsVars>>

LsNext ==
    \/ LsRegister
    \/ LsAlreadyCancelled
    \/ LsBuildThrew
    \/ LsBuilt
    \/ LsFetchOk
    \/ LsFetchFailed
    \/ LsYield
    \/ LsConsumerNext
    \/ LsConsumerReturn
    \/ LsStreamEnd
    \/ LsStreamThrew

(***************************************************************************)
(* Copilot tool-call indices: accumulateChatCompletion hands every chunk to *)
(* normalizeCopilotToolCallIndices. A chunk is given by the indices of the  *)
(* tool-call deltas of its choice, <<>> for a chunk without tool calls.     *)
(***************************************************************************)
UpstreamIndices == 0..MaxUpstreamIndex

IxChunks == {<<>>} \cup SeqsUpTo(UpstreamIndices, MaxChunkCalls)

\* a stream of one chunk or of two
IxStreams == {<<a>> : a \in IxChunks} \cup {<<a, b>> : a, b \in IxChunks}

\* const hasZero = indices.includes(0); otherwise every index above 0 is
\* lowered by one
normalizeCopilotToolCallIndices(chunk) ==
    IF Len(chunk) = 0 THEN chunk
    ELSE IF \E i \in DOMAIN chunk : chunk[i] = 0 THEN chunk
    ELSE [i \in DOMAIN chunk |-> IF chunk[i] > 0 THEN chunk[i] - 1 ELSE chunk[i]]

IxIdle ==
    /\ ixStream = <<>>
    /\ ixPos = 0
    /\ ixNormalized = <<>>

IxInit ==
    /\ ixStream \in IxStreams
    /\ ixPos = 0
    /\ ixNormalized = <<>>

\* accumulateChatCompletion(snapshot, chunk)
IxAccumulate ==
    /\ ixPos < Len(ixStream)
    /\ ixNormalized' = Append(ixNormalized,
                              normalizeCopilotToolCallIndices(ixStream[ixPos + 1]))
    /\ ixPos' = ixPos + 1
    /\ UNCHANGED <<ixStream, notIxVars>>

IxNext == IxAccumulate

(***************************************************************************)
(* GoogleVertexAIAuthProvider: getCredential, configure and revoke run as   *)
(* async methods on one object, so they interleave at every await. A        *)
(* configuration carries the id it was given when it was applied; a token   *)
(* carries the id of the configuration its GoogleAuth client was built for. *)
(***************************************************************************)
VxCallIds == 1..MaxVxCalls

VxSubTypes == {"adc", "service-account", "api-key"}

VxApiKeys(subType) ==
    IF subType = "api-key" THEN {"empty", "plain", "ref"} ELSE {"none"}

VxConfig(subType, apiKey, id) == [subType |-> subType, apiKey |-> apiKey, id |-> id]

VxToken(id) == [config |-> id, expired |-> FALSE]

VxNewCall == [pc |-> "idle", client |-> None, result |-> None]

\* the credential a call returns, with what the provider held at that moment
VxReturned(kind, token) ==
    [kind |-> kind, token |-> token,
     config |-> IF vxConfig = None THEN None ELSE Some(vxConfig[1].id),
     settled |-> /\ vxCompleted > 0
                 /\ vxConfigure.pc # "persisting"
                 /\ vxRevoke = "idle"]

VxIdle ==
    /\ vxConfig = None
    /\ vxCachedToken = None
    /\ vxGoogleAuth = None
    /\ vxCalls = <<>>
    /\ vxConfigure = [pc |-> "idle"]
    /\ vxRevoke = "idle"
    /\ vxCompleted = 0

\* constructor(context, config?)
VxInit ==
    /\ vxConfig \in {None} \cup
           {Some(VxConfig(s, k, 0)) : s \in VxSubTypes, k \in {"none", "ref"}}
    /\ vxConfig # None =>
           vxConfig[1].apiKey \in VxApiKeys(vxConfig[1].subType)
    /\ vxCachedToken = None
    /\ vxGoogleAuth = None
    /\ vxCalls = [c \in VxCallIds |-> VxNewCall]
    /\ vxConfigure = [pc |-> "idle"]
    /\ vxRevoke = "idle"
    /\ vxCompleted = 0

VxFrame == UNCHANGED notVxVars

VxUsesToken == vxConfig # None /\ vxConfig[1].subType \in {"adc", "service-account"}

\* Date.now() < this.cachedToken.expiresAt - this.getExpiryBufferMs()
VxCacheValid == vxCachedToken # None /\ ~vxCachedToken[1].expired

\* if (!this.config) return undefined
VxNoConfig(c) ==
    /\ vxCalls[c].pc = "idle"
    /\ vxConfig = None
    /\ vxCalls' = [vxCalls EXCEPT ![c].pc = "returned",
                                  ![c].result = Some(VxReturned("undefined", None))]
    /\ UNCHANGED <<vxConfig, vxCachedToken, vxGoogleAuth, vxConfigure, vxRevoke,
                   vxCompleted>>
    /\ VxFrame

\* the cached token is still valid: it is returned
VxCachedReturn(c) ==
    /\ vxCalls[c].pc = "idle"
    /\ VxUsesToken
    /\ VxCacheValid
    /\ vxCalls' = [vxCalls EXCEPT ![c].pc = "returned",
                                  ![c].result = Some(VxReturned("token", vxCachedToken))]
    /\ UNCHANGED <<vxConfig, vxCachedToken, vxGoogleAuth, vxConfigure, vxRevoke,
                   vxCompleted>>
    /\ VxFrame

\* fetchNewToken up to its await: if (!this.googleAuth) this.googleAuth =
\* this.createGoogleAuth(); the call then waits for the client's token
VxFetchStart(c) ==
    /\ vxCalls[c].pc = "idle"
    /\ VxUsesToken
    /\ ~VxCacheValid
    /\ vxGoogleAuth' = IF vxGoogleAuth = None THEN Some(vxConfig[1].id)
                       ELSE vxGoogleAuth
    /\ vxCalls' = [vxCalls EXCEPT ![c].pc = "fetching",
                                  ![c].client = vxGoogleAuth']
    /\ UNCHANGED <<vxConfig, vxCachedToken, vxConfigure, vxRevoke, vxCompleted>>
    /\ VxFrame

\* const token = await this.fetchNewToken(); this.cachedToken = token; return
VxFetchResolved(c) ==
    /\ vxCalls[c].pc = "fetching"
    /\ LET token == Some(VxToken(vxCalls[c].client[1]))
       IN  /\ vxCachedToken' = token
           /\ vxCalls' = [vxCalls EXCEPT ![c].pc = "returned",
                                         ![c].result = Some(VxReturned("token", token))]
    /\ UNCHANGED <<vxConfig, vxGoogleAuth, vxConfigure, vxRevoke, vxCompleted>>
    /\ VxFrame

\* catch (error): return undefined
VxFetchFailed(c) ==
    /\ vxCalls[c].pc = "fetching"
    /\ vxCalls' = [vxCalls EXCEPT ![c].pc = "returned",
                                  ![c].result = Some(VxReturned("undefined", None))]
    /\ UNCHANGED <<vxConfig, vxCachedToken, vxGoogleAuth, vxConfigure, vxRevoke,
                   vxCompleted>>
    /\ VxFrame

\* case 'api-key' with a secret reference: await secretStore.getApiKey
VxApiKeyLookup(c) ==
    /\ vxCalls[c].pc = "idle"
    /\ vxConfig # None
    /\ vxConfig[1].subType = "api-key"
    /\ vxConfig[1].apiKey = "ref"
    /\ vxCalls' = [vxCalls EXCEPT ![c].pc = "lookup"]
    /\ UNCHANGED <<vxConfig, vxCachedToken, vxGoogleAuth, vxConfigure, vxRevoke,
                   vxCompleted>>
    /\ VxFrame

\* case 'api-key': the key of the settings, '' for none, or the stored key
VxApiKeyReturn(c) ==
    /\ \/ /\ vxCalls[c].pc = "idle"
          /\ vxConfig # None
          /\ vxConfig[1].subType = "api-key"
          /\ vxConfig[1].apiKey # "ref"
       \/ vxCalls[c].pc = "lookup"
    /\ \E kind \in {"api-key", "undefined"} :
           /\ kind = "undefined" => vxCalls[c].pc = "lookup"
           /\ vxCalls' = [vxCalls EXCEPT ![c].pc = "returned",
                                         ![c].result = Some(VxReturned(kind, None))]
    /\ UNCHANGED <<vxConfig, vxCachedToken, vxGoogleAuth, vxConfigure, vxRevoke,
                   vxCompleted>>
    /\ VxFrame

\* the clock passes expiresAt - getExpiryBufferMs()
VxTokenExpires ==
    /\ VxCacheValid
    /\ vxCachedToken' = Some([vxCachedToken[1] EXCEPT !.expired = TRUE])
    /\ UNCHANGED <<vxConfig, vxGoogleAuth, vxCalls, vxConfigure, vxRevoke,
                   vxCompleted>>
    /\ VxFrame

\* configure(): selectAuthType and the configure dialog of that type
VxSelectAuthType ==
    /\ vxConfigure.pc = "idle"
    /\ vxCompleted < MaxVxConfigs
    /\ \E s \in VxSubTypes : \E k \in VxApiKeys(s) :
           vxConfigure' = [pc |-> "selected", subType |-> s, apiKey |-> k]
    /\ UNCHANGED <<vxConfig, vxCachedToken, vxGoogleAuth, vxCalls, vxRevoke,
                   vxCompleted>>
    /\ VxFrame

\* if (!authType) / if (!newConfig) return { success: false }
VxConfigureCancelled ==
    /\ vxConfigure.pc = "selected"
    /\ vxConfigure' = [pc |-> "idle"]
    /\ UNCHANGED <<vxConfig, vxCachedToken, vxGoogleAuth, vxCalls, vxRevoke,
                   vxCompleted>>
    /\ VxFrame

\* this.cachedToken = null; this.googleAuth = null; this.config = newConfig
VxConfigureApply ==
    /\ vxConfigure.pc = "selected"
    /\ vxCompleted < MaxVxConfigs
    /\ vxCachedToken' = None
    /\ vxGoogleAuth' = None
    /\ vxConfig' = Some(VxConfig(vxConfigure.subType, vxConfigure.apiKey,
                                 vxCompleted + 1))
    /\ vxCompleted' = vxCompleted + 1
    /\ vxConfigure' = [pc |-> "persisting"]
    /\ UNCHANGED <<vxCalls, vxRevoke>>
    /\ VxFrame

\* await this.context.persistAuthConfig?.(newConfig); return { success: true }
VxConfigurePersisted ==
    /\ vxConfigure.pc = "persisting"
    /\ vxConfigure' = [pc |-> "idle"]
    /\ UNCHANGED <<vxConfig, vxCachedToken, vxGoogleAuth, vxCalls, vxRevoke,
                   vxCompleted>>
    /\ VxFrame

\* revoke() of an api-key configuration with a secret reference:
\* await this.context.secretStore.deleteApiKey
VxRevokeDeleteKey ==
    /\ vxRevoke = "idle"
    /\ vxCompleted < MaxVxConfigs
    /\ vxConfig # None
    /\ vxConfig[1].subType = "api-key"
    /\ vxConfig[1].apiKey = "ref"
    /\ vxRevoke' = "deleting"
    /\ UNCHANGED <<vxConfig, vxCachedToken, vxGoogleAuth, vxCalls, vxConfigure,
                   vxCompleted>>
    /\ VxFrame

\* this.cachedToken = null; this.googleAuth = null; this.config = undefined
VxRevokeClear ==
    /\ vxCompleted < MaxVxConfigs
    /\ IF vxRevoke = "idle"
       THEN ~(vxConfig # None /\ vxConfig[1].subType = "api-key"
                              /\ vxConfig[1].apiKey = "ref")
       ELSE TRUE
    /\ vxCachedToken' = None
    /\ vxGoogleAuth' = None
    /\ vxConfig' = None
    /\ vxRevoke' = "idle"
    /\ vxCompleted' = vxCompleted + 1
    /\ UNCHANGED <<vxCalls, vxConfigure>>
    /\ VxFrame

VxNext ==
    \/ \E c \in VxCallIds :
           \/ VxNoConfig(c)
           \/ VxCachedReturn(c)
           \/ VxFetchStart(c)
           \/ VxFetchResolved(c)
           \/ VxFetchFailed(c)
           \/ VxApiKeyLookup(c)
           \/ VxApiKeyReturn(c)
    \/ VxTokenExpires
    \/ VxSelectAuthType
    \/ VxConfigureCancelled
    \/ VxConfigureApply
    \/ VxConfigurePersisted
    \/ VxRevokeDeleteKey
    \/ VxRevokeClear

\* a token belongs to the configuration the provider holds
VxTokenOfCurrentConfig(token) ==
    vxConfig # None /\ token[1].config = vxConfig[1].id

VxSettled ==
    /\ vxCompleted > 0
    /\ vxConfigure.pc # "persisting"
    /\ vxRevoke = "idle"

\* C39: once configure() or revoke() has completed, the token cache holds no
\* token obtained under an earlier configuration and getCredential returns
\* none, also when a getCredential call that started under the earlier
\* configuration was still awaiting its token fetch at that moment.
C39_NoTokenOfPreviousConfiguration ==
    /\ VxSettled /\ vxCachedToken # None =>
           VxTokenOfCurrentConfig(vxCachedToken)
    /\ \A c \in DOMAIN vxCalls :
           LET credential == vxCalls[c].result
           IN  (credential # None /\ credential[1].kind = "token" /\ credential[1].settled) =>
                   credential[1].config = Some(credential[1].token[1].config)

\* Without a getCredential call waiting for its token across a configure()
\* or revoke(), the cache and the returned credentials are of the current
\* configuration: the cache is cleared in the same step as the configuration
\* changes.
CacheClearedWithConfiguration ==
    [][(vxConfig' # vxConfig) => vxCachedToken' = None /\ vxGoogleAuth' = None]_vars

(***************************************************************************)
(* The recursion of clean, call by call. A schema value is a leaf           *)
(* ({type: 'string'}), a reference ({$ref: '#/section/key'}) or an object   *)
(* with one property ({type: 'object', properties: {p: value}}); the frames *)
(* of the calls of clean are kept on a stack, and the engine's call stack   *)
(* holds MaxStackDepth of them.                                             *)
(***************************************************************************)
RfLeaf == [kind |-> "leaf"]

RfRef(section, key) == [kind |-> "ref", section |-> section, key |-> key]

RfObject(value) == [kind |-> "object", property |-> value]

\* the entries a store can have: rootDefs two, rootDefinitions one
RfSlots == {<<"$defs", "A">>, <<"$defs", "B">>, <<"definitions", "A">>}

RfRefs == {RfRef(s[1], s[2]) : s \in RfSlots}

RfValues == {RfLeaf, RfObject(RfLeaf)} \cup RfRefs \cup {RfObject(r) : r \in RfRefs}

\* rootDefs / rootDefinitions: the entries present, by <<section, key>>
RfStoreSets == UNION {[slots -> RfValues] : slots \in SUBSET RfSlots}

RfFrame(value, stage) == [value |-> value, stage |-> stage]

RfIdle ==
    /\ rfSchema = <<>>
    /\ rfStores = <<>>
    /\ rfStack = <<>>
    /\ rfCleaned = None
    /\ rfPc = "idle"

RfInit ==
    /\ rfSchema \in RfValues
    /\ rfStores \in RfStoreSets
    /\ rfStack = <<>>
    /\ rfCleaned = None
    /\ rfPc = "idle"

RfTop == rfStack[Len(rfStack)]

\* const resolved = store?.[key]; if (resolved !== undefined)
RfResolves(value) ==
    value.kind = "ref" /\ <<value.section, value.key>> \in DOMAIN rfStores

RfEntering == rfPc = "running" /\ rfCleaned = None /\ RfTop.stage = "enter"

RfResuming(stage) == rfPc = "running" /\ rfCleaned # None /\ RfTop.stage = stage

\* the call at the top of the stack calls clean(value)
RfCallClean(stage, value) ==
    /\ Len(rfStack) < MaxStackDepth
    /\ rfStack' = Append([rfStack EXCEPT ![Len(rfStack)].stage = stage],
                         RfFrame(value, "enter"))
    /\ rfCleaned' = None
    /\ rfPc' = rfPc

\* the call at the top of the stack returns value
RfReturnValue(value) ==
    /\ rfStack' = SubSeq(rfStack, 1, Len(rfStack) - 1)
    /\ rfCleaned' = Some(value)
    /\ rfPc' = IF Len(rfStack) = 1 THEN "returned" ELSE rfPc

RfFrameRest == UNCHANGED <<rfSchema, rfStores, notRfVars>>

\* cleanJsonSchemaForAntigravity(schema): clean(schema)
RfCleanSchema ==
    /\ rfPc = "idle"
    /\ rfStack' = <<RfFrame(rfSchema, "enter")>>
    /\ rfPc' = "running"
    /\ UNCHANGED rfCleaned
    /\ RfFrameRest

\* a record without $ref and without nested schemas: the loop over its keys
RfCleanLeaf ==
    /\ RfEntering
    /\ RfTop.value.kind = "leaf"
    /\ RfReturnValue(RfLeaf)
    /\ RfFrameRest

\* a $ref that names no entry of the stores: the loop over the keys skips it
RfCleanUnresolvedRef ==
    /\ RfEntering
    /\ RfTop.value.kind = "ref"
    /\ ~RfResolves(RfTop.value)
    /\ RfReturnValue(RfLeaf)
    /\ RfFrameRest

\* const cleanedResolved = clean(resolved)
RfCleanResolved ==
    /\ RfEntering
    /\ RfResolves(RfTop.value)
    /\ RfCallClean("resolved", rfStores[<<RfTop.value.section, RfTop.value.key>>])
    /\ RfFrameRest

\* return clean({ ...cleanedResolved, ...merged })
RfCleanMerged ==
    /\ RfResuming("resolved")
    /\ RfCallClean("merged", rfCleaned[1])
    /\ RfFrameRest

\* the value of that call is returned
RfReturnMerged ==
    /\ RfResuming("merged")
    /\ RfReturnValue(rfCleaned[1])
    /\ RfFrameRest

\* out[k] = clean(v) for the properties of an object
RfCleanProperty ==
    /\ RfEntering
    /\ RfTop.value.kind = "object"
    /\ RfCallClean("property", RfTop.value.property)
    /\ RfFrameRest

\* return out
RfReturnObject ==
    /\ RfResuming("property")
    /\ RfReturnValue(RfObject(rfCleaned[1]))
    /\ RfFrameRest

\* a further call of clean with the call stack full: the engine throws
\* RangeError, which nothing in the sanitizer catches
RfStackOverflow ==
    /\ rfPc = "running"
    /\ Len(rfStack) = MaxStackDepth
    /\ IF rfCleaned = None
       THEN RfTop.stage = "enter" /\ RfTop.value.kind # "leaf"
            /\ (RfTop.value.kind = "ref" => RfResolves(RfTop.value))
       ELSE RfTop.stage = "resolved"
    /\ rfPc' = "overflow"
    /\ UNCHANGED <<rfStack, rfCleaned>>
    /\ RfFrameRest

RfNext ==
    \/ RfCleanSchema
    \/ RfCleanLeaf
    \/ RfCleanUnresolvedRef
    \/ RfCleanResolved
    \/ RfCleanMerged
    \/ RfReturnMerged
    \/ RfCleanProperty
    \/ RfReturnObject
    \/ RfStackOverflow

\* the entries a value refers to, directly or through its property
RfRefsOf(value) ==
    IF value.kind = "ref" THEN {<<value.section, value.key>>} \cap DOMAIN rfStores
    ELSE IF value.kind = "object" /\ value.property.kind = "ref"
    THEN {<<value.property.section, value.property.key>>} \cap DOMAIN rfStores
    ELSE {}

RECURSIVE RfReachable(_, _)
\* the entries reached from a set of entries in at most n steps
RfReachable(slots, n) ==
    IF n = 0 THEN slots
    ELSE RfReachable(slots \cup UNION {RfRefsOf(rfStores[s]) : s \in slots}, n - 1)

\* an entry the root schema reaches refers back to itself
RfCyclic ==
    \E s \in RfReachable(RfRefsOf(rfSchema), Cardinality(RfSlots)) :
        s \in RfReachable(RfRefsOf(rfStores[s]), Cardinality(RfSlots))

\* C40: the schema sanitizer terminates on every finite input schema, also
\* when entries of $defs / definitions refer to themselves or to each other
\* through $ref: every call of cleanJsonSchemaForAntigravity returns.
C40_SanitizerTerminates == (rfPc = "running") ~> (rfPc = "returned")

\* On schemas whose reachable entries do not refer back to themselves the
\* sanitizer returns.
SanitizerTerminatesWithoutCycles ==
    (rfPc = "running" /\ ~RfCyclic) ~> (rfPc = "returned")

\* On every other schema it exhausts the call stack.
SanitizerOverflowsOnCycles ==
    (rfPc = "running" /\ RfCyclic) ~> (rfPc = "overflow")

(***************************************************************************)
(* Specifications                                                           *)
(***************************************************************************)
InitNorm == NormInit /\ RetryIdle /\ SchemaIdle /\ SseIdle /\ ChatIdle /\ DecIdle /\ AccIdle /\ ReqIdle /\ HistIdle /\ ConvIdle /\ LinIdle /\ BoIdle /\ TnIdle /\ CcIdle /\ FtIdle /\ LmIdle /\ CfgIdle /\ CqIdle /\ LsIdle /\ IxIdle /\ VxIdle /\ RfIdle

SpecNorm == InitNorm /\ [][NormNext]_vars

InitRetry == RetryIdle /\ NormIdle /\ SchemaIdle /\ SseIdle /\ ChatIdle /\ DecIdle /\ AccIdle /\ ReqIdle /\ HistIdle /\ ConvIdle /\ LinIdle /\ BoIdle /\ TnIdle /\ CcIdle /\ FtIdle /\ LmIdle /\ CfgIdle /\ CqIdle /\ LsIdle /\ IxIdle /\ VxIdle /\ RfIdle

SpecRetry == InitRetry /\ [][RetryNext]_vars

InitSchema == SchemaInit /\ NormIdle /\ RetryIdle /\ SseIdle /\ ChatIdle /\ DecIdle /\ AccIdle /\ ReqIdle /\ HistIdle /\ ConvIdle /\ LinIdle /\ BoIdle /\ TnIdle /\ CcIdle /\ FtIdle /\ LmIdle /\ CfgIdle /\ CqIdle /\ LsIdle /\ IxIdle /\ VxIdle /\ RfIdle

SpecSchema == InitSchema /\ [][SchemaNext]_vars

InitTool == SchemaToolInit /\ NormIdle /\ RetryIdle /\ SseIdle /\ ChatIdle /\ DecIdle /\ AccIdle /\ ReqIdle /\ HistIdle /\ ConvIdle /\ LinIdle /\ BoIdle /\ TnIdle /\ CcIdle /\ FtIdle /\ LmIdle /\ CfgIdle /\ CqIdle /\ LsIdle /\ IxIdle /\ VxIdle /\ RfIdle

SpecTool == InitTool /\ [][SchemaNext]_vars

InitSse == SseInit /\ NormIdle /\ RetryIdle /\ SchemaIdle /\ ChatIdle /\ DecIdle /\ AccIdle /\ ReqIdle /\ HistIdle /\ ConvIdle /\ LinIdle /\ BoIdle /\ TnIdle /\ CcIdle /\ FtIdle /\ LmIdle /\ CfgIdle /\ CqIdle /\ LsIdle /\ IxIdle /\ VxIdle /\ RfIdle

SpecSse == InitSse /\ [][SseNext]_vars

InitChat == ChatInit /\ SseIdle /\ RetryIdle /\ NormIdle /\ SchemaIdle /\ DecIdle /\ AccIdle /\ ReqIdle /\ HistIdle /\ ConvIdle /\ LinIdle /\ BoIdle /\ TnIdle /\ CcIdle /\ FtIdle /\ LmIdle /\ CfgIdle /\ CqIdle /\ LsIdle /\ IxIdle /\ VxIdle /\ RfIdle

SpecChat == InitChat /\ [][ChatNext]_vars

InitDec == DecInit /\ NormIdle /\ RetryIdle /\ SchemaIdle /\ SseIdle /\ ChatIdle /\ AccIdle /\ ReqIdle /\ HistIdle /\ ConvIdle /\ LinIdle /\ BoIdle /\ TnIdle /\ CcIdle /\ FtIdle /\ LmIdle /\ CfgIdle /\ CqIdle /\ LsIdle /\ IxIdle /\ VxIdle /\ RfIdle

SpecDec == InitDec /\ [][DecNext]_vars

InitAcc == AccInit /\ NormIdle /\ RetryIdle /\ SchemaIdle /\ SseIdle /\ ChatIdle /\ DecIdle /\ ReqIdle /\ HistIdle /\ ConvIdle /\ LinIdle /\ BoIdle /\ TnIdle /\ CcIdle /\ FtIdle /\ LmIdle /\ CfgIdle /\ CqIdle /\ LsIdle /\ IxIdle /\ VxIdle /\ RfIdle

SpecAcc == InitAcc /\ [][AccNext]_vars

InitReq == ReqInit /\ NormIdle /\ RetryIdle /\ SchemaIdle /\ SseIdle /\ ChatIdle /\ DecIdle /\ AccIdle /\ HistIdle /\ ConvIdle /\ LinIdle /\ BoIdle /\ TnIdle /\ CcIdle /\ FtIdle /\ LmIdle /\ CfgIdle /\ CqIdle /\ LsIdle /\ IxIdle /\ VxIdle /\ RfIdle

SpecReq == InitReq /\ [][ReqNext]_vars

InitHist == HistInit /\ NormIdle /\ RetryIdle /\ SchemaIdle /\ SseIdle /\ ChatIdle /\ DecIdle /\ AccIdle /\ ReqIdle /\ ConvIdle /\ LinIdle /\ BoIdle /\ TnIdle /\ CcIdle /\ FtIdle /\ LmIdle /\ CfgIdle /\ CqIdle /\ LsIdle /\ IxIdle /\ VxIdle /\ RfIdle

SpecHist == InitHist /\ [][HistNext]_vars

InitConv == ConvInit /\ NormIdle /\ RetryIdle /\ SchemaIdle /\ SseIdle /\ ChatIdle /\ DecIdle /\ AccIdle /\ ReqIdle /\ HistIdle /\ LinIdle /\ BoIdle /\ TnIdle /\ CcIdle /\ FtIdle /\ LmIdle /\ CfgIdle /\ CqIdle /\ LsIdle /\ IxIdle /\ VxIdle /\ RfIdle

SpecConv == InitConv /\ [][ConvNext]_vars

InitLin == LinInit /\ NormIdle /\ RetryIdle /\ SchemaIdle /\ SseIdle /\ ChatIdle /\ DecIdle /\ AccIdle /\ ReqIdle /\ HistIdle /\ ConvIdle /\ BoIdle /\ TnIdle /\ CcIdle /\ FtIdle /\ LmIdle /\ CfgIdle /\ CqIdle /\ LsIdle /\ IxIdle /\ VxIdle /\ RfIdle

SpecLin == InitLin /\ [][LinNext]_vars

\* either decoder on a response body
FrameInit == (DecInit /\ LinIdle) \/ (LinInit /\ DecIdle)

FrameNext == DecNext \/ LinNext

InitFrame == FrameInit /\ NormIdle /\ RetryIdle /\ SchemaIdle /\ SseIdle /\ ChatIdle /\ AccIdle /\ ReqIdle /\ HistIdle /\ ConvIdle /\ BoIdle /\ TnIdle /\ CcIdle /\ FtIdle /\ LmIdle /\ CfgIdle /\ CqIdle /\ LsIdle /\ IxIdle /\ VxIdle /\ RfIdle

SpecFrame == InitFrame /\ [][FrameNext]_vars

InitBo == BoInit /\ NormIdle /\ RetryIdle /\ SchemaIdle /\ SseIdle /\ ChatIdle /\ DecIdle /\ AccIdle /\ ReqIdle /\ HistIdle /\ ConvIdle /\ LinIdle /\ TnIdle /\ CcIdle /\ FtIdle /\ LmIdle /\ CfgIdle /\ CqIdle /\ LsIdle /\ IxIdle /\ VxIdle /\ RfIdle

SpecBo == InitBo /\ [][BoNext]_vars

InitTn == TnInit /\ NormIdle /\ RetryIdle /\ SchemaIdle /\ SseIdle /\ ChatIdle /\ DecIdle /\ AccIdle /\ ReqIdle /\ HistIdle /\ ConvIdle /\ LinIdle /\ BoIdle /\ CcIdle /\ FtIdle /\ LmIdle /\ CfgIdle /\ CqIdle /\ LsIdle /\ IxIdle /\ VxIdle /\ RfIdle

SpecTn == InitTn /\ [][TnNext]_vars

InitCc == CcInit /\ NormIdle /\ RetryIdle /\ SchemaIdle /\ SseIdle /\ ChatIdle /\ DecIdle /\ AccIdle /\ ReqIdle /\ HistIdle /\ ConvIdle /\ LinIdle /\ BoIdle /\ TnIdle /\ FtIdle /\ LmIdle /\ CfgIdle /\ CqIdle /\ LsIdle /\ IxIdle /\ VxIdle /\ RfIdle

SpecCc == InitCc /\ [][CcNext]_vars

InitFt == FtInit /\ NormIdle /\ RetryIdle /\ SchemaIdle /\ SseIdle /\ ChatIdle /\ DecIdle /\ AccIdle /\ ReqIdle /\ HistIdle /\ ConvIdle /\ LinIdle /\ BoIdle /\ TnIdle /\ CcIdle /\ LmIdle /\ CfgIdle /\ CqIdle /\ LsIdle /\ IxIdle /\ VxIdle /\ RfIdle

SpecFt == InitFt /\ [][FtNext]_vars

InitLm == LmInit /\ NormIdle /\ RetryIdle /\ SchemaIdle /\ SseIdle /\ ChatIdle /\ DecIdle /\ AccIdle /\ ReqIdle /\ HistIdle /\ ConvIdle /\ LinIdle /\ BoIdle /\ TnIdle /\ CcIdle /\ FtIdle /\ CfgIdle /\ CqIdle /\ LsIdle /\ IxIdle /\ VxIdle /\ RfIdle

SpecLm == InitLm /\ [][LmNext]_vars

InitCfg == CfgInit /\ NormIdle /\ RetryIdle /\ SchemaIdle /\ SseIdle /\ ChatIdle /\ DecIdle /\ AccIdle /\ ReqIdle /\ HistIdle /\ ConvIdle /\ LinIdle /\ BoIdle /\ TnIdle /\ CcIdle /\ FtIdle /\ LmIdle /\ CqIdle /\ LsIdle /\ IxIdle /\ VxIdle /\ RfIdle

SpecCfg == InitCfg /\ [][CfgNext]_vars

InitCq == CqInit /\ NormIdle /\ RetryIdle /\ SchemaIdle /\ SseIdle /\ ChatIdle /\ DecIdle /\ AccIdle /\ ReqIdle /\ HistIdle /\ ConvIdle /\ LinIdle /\ BoIdle /\ TnIdle /\ CcIdle /\ FtIdle /\ LmIdle /\ CfgIdle /\ LsIdle /\ IxIdle /\ VxIdle /\ RfIdle

SpecCq == InitCq /\ [][CqNext]_vars

InitLs == LsInit /\ NormIdle /\ RetryIdle /\ SchemaIdle /\ SseIdle /\ ChatIdle /\ DecIdle /\ AccIdle /\ ReqIdle /\ HistIdle /\ ConvIdle /\ LinIdle /\ BoIdle /\ TnIdle /\ CcIdle /\ FtIdle /\ LmIdle /\ CfgIdle /\ CqIdle /\ IxIdle /\ VxIdle /\ RfIdle

SpecLs == InitLs /\ [][LsNext]_vars

InitIx == IxInit /\ NormIdle /\ RetryIdle /\ SchemaIdle /\ SseIdle /\ ChatIdle /\ DecIdle /\ AccIdle /\ ReqIdle /\ HistIdle /\ ConvIdle /\ LinIdle /\ BoIdle /\ TnIdle /\ CcIdle /\ FtIdle /\ LmIdle /\ CfgIdle /\ CqIdle /\ LsIdle /\ VxIdle /\ RfIdle

SpecIx == InitIx /\ [][IxNext]_vars

InitVx == VxInit /\ NormIdle /\ RetryIdle /\ SchemaIdle /\ SseIdle /\ ChatIdle /\ DecIdle /\ AccIdle /\ ReqIdle /\ HistIdle /\ ConvIdle /\ LinIdle /\ BoIdle /\ TnIdle /\ CcIdle /\ FtIdle /\ LmIdle /\ CfgIdle /\ CqIdle /\ LsIdle /\ IxIdle /\ RfIdle

SpecVx == InitVx /\ [][VxNext]_vars

InitRf == RfInit /\ NormIdle /\ RetryIdle /\ SchemaIdle /\ SseIdle /\ ChatIdle /\ DecIdle /\ AccIdle /\ ReqIdle /\ HistIdle /\ ConvIdle /\ LinIdle /\ BoIdle /\ TnIdle /\ CcIdle /\ FtIdle /\ LmIdle /\ CfgIdle /\ CqIdle /\ LsIdle /\ IxIdle /\ VxIdle

SpecRf == InitRf /\ [][RfNext]_vars

\* a call of clean that can take its next step takes it: the sanitizer is
\* synchronous code, run to its end once entered
SpecRfLive == InitRf /\ [][RfNext]_vars /\ WF_vars(RfNext)

(***************************************************************************)
(* Properties of the request normalization                                  *)
(***************************************************************************)
NoAdjacentSameRole(res) == \A i \in 1..(Len(res) - 1) : res[i].role # res[i + 1].role

HasAdjacentSameRole(res) == \E i \in 1..(Len(res) - 1) : res[i].role = res[i + 1].role

\* C1: the sequence returned by ensureAlternatingRoles has no two adjacent
\* messages of the same role and, when non-empty, starts with a user message.
C1_AlternatingUserFirst ==
    normPc = "done" =>
        /\ NoAdjacentSameRole(result)
        /\ (Len(result) > 0 => result[1].role = "user")

\* An assistant-first input with a run of same-role messages was normalized.
C1_Witness ==
    /\ normPc = "done"
    /\ Len(messages) >= 3
    /\ messages[1].role = "assistant"
    /\ HasAdjacentSameRole(messages)
    /\ Len(result) >= 3

(***************************************************************************)
(* Properties of the retrying transport                                     *)
(***************************************************************************)
\* The retry set as the specification states it, and the budget of the call
\* (10 retries when the caller configures none).
StatedRetrySet == {429, 500, 502, 503, 504}

Budget == IF retryConfig = None THEN 10 ELSE retryConfig[1]

IsFinalReply(r) ==
    /\ r.kind = "response"
    /\ (r.status \in 200..299 \/ r.status \notin StatedRetrySet)

IsRetryableReply(r) == r.kind = "response" /\ r.status \in StatedRetrySet

AllRetryable(rs) == \A k \in 1..Len(rs) : IsRetryableReply(rs[k])

StatusesOf(rs) == [k \in 1..Len(rs) |-> IF rs[k].kind = "response" THEN rs[k].status ELSE 0]

\* C4: the first reply that is 2xx or outside the retry set is returned at
\* once: it is the k-th reply, k requests were sent and k-1 waits performed.
C4_FirstFinalReplyReturned ==
    \A k \in 1..Len(replies) :
        (IsFinalReply(replies[k]) /\ AllRetryable(SubSeq(replies, 1, k - 1))) =>
            /\ k <= Budget + 1
            /\ k = Len(replies)
            /\ fetchPc = "returned"
            /\ fetchResult = Some(replies[k])
            /\ fetchError = None
            /\ requests = k
            /\ waits = k - 1

\* Replies 503, 503, 200: the 200 response came back after 3 requests, 2 waits.
C4_Witness ==
    /\ fetchPc = "returned"
    /\ StatusesOf(replies) = <<503, 503, 200>>
    /\ fetchResult = Some(replies[3])
    /\ requests = 3
    /\ waits = 2

\* C7: when every reply is retryable the transport stops after Budget retries
\* (Budget + 1 requests, 10 retries by default), does not wait after the last
\* request and returns the last reply itself.
C7_ExhaustionReturnsLastReply ==
    (fetchPc # "idle" /\ AllRetryable(replies)) =>
        /\ requests <= Budget + 1
        /\ waits <= Budget
        /\ (fetchPc = "waiting" => requests <= Budget)
        /\ fetchPc # "threw"
        /\ (Len(replies) = Budget + 1 =>
                /\ waits = Budget
                /\ \/ fetchPc = "loop" /\ attempt > maxRetries
                   \/ fetchPc = "returned")
        /\ (fetchPc = "returned" =>
                /\ Len(replies) = Budget + 1
                /\ requests = Budget + 1
                /\ fetchResult = Some(replies[Len(replies)])
                /\ fetchError = None)

\* The default budget was exhausted: 11 requests, 10 waits, last reply returned.
C7_Witness ==
    /\ fetchPc = "returned"
    /\ retryConfig = None
    /\ AllRetryable(replies)
    /\ requests = 11
    /\ waits = 10
    /\ fetchResult = Some(replies[11])

HasFailure(rs) == \E k \in 1..Len(rs) : rs[k].kind = "failure"

\* C8: an attempt that fails without an HTTP response ends the call: the
\* failure is thrown unchanged and no request or wait follows it.
C8_FailurePropagatesImmediately ==
    HasFailure(replies) =>
        /\ replies[Len(replies)].kind = "failure"
        /\ fetchPc = "threw"
        /\ fetchError = Some(replies[Len(replies)].error)
        /\ fetchResult = None
        /\ requests = Len(replies)
        /\ waits = Len(replies) - 1

\* The second attempt failed while retries remained.
C8_Witness ==
    /\ fetchPc = "threw"
    /\ Len(replies) = 2
    /\ IsRetryableReply(replies[1])
    /\ replies[2].kind = "failure"
    /\ replies[2].error = "abort"
    /\ Budget >= 2

(***************************************************************************)
(* Properties of the schema sanitizer                                       *)
(***************************************************************************)
PropertyNamesOf(schema) ==
    IF Has(schema.v, "properties") /\ isRecord(schema.v["properties"])
    THEN DOMAIN schema.v["properties"].v
    ELSE {}

RequiredNamesOf(schema) ==
    IF Has(schema.v, "required") /\ isArray(schema.v["required"])
    THEN {x.v : x \in Range(schema.v["required"].v)}
    ELSE {}

InputUnionKey == CHOOSE k \in UnionKeys : Has(schemaIn.v, k)
InputVariant(i) == schemaIn.v[InputUnionKey].v[i]

\* C6: sanitizing a schema holding an anyOf / oneOf of two object variants
\* yields one object schema without anyOf / oneOf whose required set is the
\* intersection of the variants' required sets and whose property names are
\* the union of the variants' property names.
C6_UnionOfTwoObjectVariants ==
    schemaPc \in {"cleaned", "normalized"} =>
        /\ isRecord(schemaOut[1])
        /\ ~Has(schemaOut[1].v, "anyOf")
        /\ ~Has(schemaOut[1].v, "oneOf")
        /\ RequiredNamesOf(schemaOut[1])
             = RequiredNamesOf(InputVariant(1)) \cap RequiredNamesOf(InputVariant(2))
        /\ PropertyNamesOf(schemaOut[1])
             = PropertyNamesOf(InputVariant(1)) \cup PropertyNamesOf(InputVariant(2))

PartsSince(n) == SubSeq(parts, n + 1, Len(parts))

IsToolCallPart(p) == p.kind = "tool_call"

\* a thinking part that carries metadata (signature and complete text)
IsCanonicalThinking(p) == p.kind = "thinking" /\ p.metadata # None

\* the streamed tool_use block whose fragments f1..fN (N >= 1) concatenate to
\* valid JSON while no prefix f1..fk, 1 <= k < N, is valid JSON
ToolBlockJustComplete ==
    /\ curBlock # None
    /\ curBlock[1].type = "tool_use"
    /\ curBlock[1].nFrags >= 1
    /\ ~curBlock[1].prefixValid
    /\ JSONparse(curBlock[1].frags) # None

\* C2: for a tool-use block whose fragments f1..fN concatenate to valid JSON,
\* with no earlier prefix valid, the parser has emitted exactly one tool_call
\* part for the block, carrying the id and name of the block-start event and
\* the parse of f1..fN as input -- whether or not the block-stop has arrived.
C2_ExactlyOneToolCall ==
    ToolBlockJustComplete =>
        PartsSince(curBlock[1].partsBefore) =
            <<ToolCallPart(curBlock[1].block.id, curBlock[1].block.name,
                           JSONparse(curBlock[1].frags)[1])>>

C2_Witness ==
    /\ ToolBlockJustComplete
    /\ curBlock[1].nFrags >= 3
    /\ curBlock[1].closed
    /\ curBlock[1].index > 0
    /\ Len(SelectSeq(parts, IsToolCallPart)) >= 1

\* C3: at the block-stop of a visible thinking block the parser emits no
\* canonical thinking part when the accumulated signature is empty, and
\* otherwise exactly one, last, whose text is the concatenation of the block's
\* thinking deltas and whose signature is the concatenation of its signature
\* deltas; none is emitted before the block-stop.
C3_CanonicalThinkingAtStop ==
    (curBlock # None /\ curBlock[1].type = "thinking") =>
        LET since == PartsSince(curBlock[1].partsBefore)
            canonical == SelectSeq(since, IsCanonicalThinking)
        IN  IF curBlock[1].closed /\ Len(curBlock[1].signature) > 0
            THEN /\ canonical = <<FinalThinkingPart(curBlock[1].signature,
                                                    curBlock[1].thinking)>>
                 /\ since[Len(since)] = canonical[1]
            ELSE canonical = <<>>

C3_Witness ==
    /\ curBlock # None
    /\ curBlock[1].type = "thinking"
    /\ curBlock[1].closed
    /\ Len(curBlock[1].thinking) >= 2
    /\ Len(curBlock[1].signature) >= 2
    /\ Len(SelectSeq(parts, IsCanonicalThinking)) = 1

\* the token fired after streaming had begun: while streamChat was blocked in
\* reader.read(), or between chunks while it was suspended at a yield and the
\* consumer held the part
CancelledMidStream == cancelPoint \in {"awaitingChunk", "betweenChunks"}

\* C5: once the token has fired mid-stream, streamChat yields no further part
\* and does not throw.
C5_CancelEndsQuietly ==
    CancelledMidStream => (chatPc # "failed" /\ Len(parts) = partsAtCancel)

\* a failure of the response stream after the reply arrived
StreamFailure == ParseReadRejected \/ ParseLineError \/ AgStreamFailure

\* C9: within one streamChat call no request is issued once a part has been
\* yielded; the yielded parts are only ever extended; a failure of the stream
\* ends the sequence with an error, and the failed call does nothing more.
C9_NoRequestAfterFirstPart ==
    [][/\ (Len(parts) > 0 => requests' = requests)
       /\ Len(parts') >= Len(parts)
       /\ SubSeq(parts', 1, Len(parts)) = parts
       /\ (StreamFailure => (chatPc' = "failed" /\ chatError' # None))
       /\ (chatPc = "failed" =>
             (chatPc' = "failed" /\ parts' = parts /\ requests' = requests))]_vars

C9_Witness ==
    /\ chatPc = "failed"
    /\ Len(parts) >= 2
    /\ requests >= 3
    /\ chatError = Some(TransportError("network"))

\* C10: an error for a reply whose status is in the retry set reaches the
\* caller only after the default retry budget is used up: maxRetries + 1
\* requests have been sent, each answered.
C10_RetryableReplyIsResent ==
    (chatPc = "failed" /\ chatError # None /\ chatError[1].kind = "http"
        /\ chatError[1].status \in StatedRetrySet)
    => (requests = 10 + 1 /\ Len(replies) = requests)

\* C11: once the abort signal is set, the decoder yields at most one further
\* event before its sequence ends.
C11_AtMostOneEventAfterAbort ==
    abortSet => Len(decEvents) <= eventsAtAbort + 1

\* C12: a tool_call part produced while handling an event that carries block
\* index i is the call of the block started with index i: it bears the id and
\* the name given by that block's start event, under every interleaving.
C12_EntriesKeyedByIndex ==
    \A j \in 1..Len(parts) :
        parts[j].kind = "tool_call" =>
            /\ parts[j].callId = ToolUseBlock(partSources[j]).id
            /\ parts[j].name = ToolUseBlock(partSources[j]).name

\* the stopped tool_use block none of whose delta prefixes f1..fk, k >= 1,
\* parsed as JSON
ToolBlockStoppedUnparsed ==
    /\ curBlock # None
    /\ curBlock[1].type = "tool_use"
    /\ curBlock[1].closed
    /\ ~curBlock[1].prefixValid
    /\ JSONparse(curBlock[1].frags) = None

\* C13: at the block-stop of a tool-use block no delta prefix of which parsed,
\* the final parse of the buffer has failed, so the tool_call is emitted with
\* {} as its input, and no accumulator entry is left.
C13_StopFallsBackToEmptyInput ==
    ToolBlockStoppedUnparsed =>
        /\ PartsSince(curBlock[1].partsBefore) =
               <<ToolCallPart(curBlock[1].block.id, curBlock[1].block.name, EmptyObj)>>
        /\ currentToolCall = None


\* the Anthropic adapter has resolved the tool choice of its request
ChoiceResolved == reqAdapter = "anthropic" /\ reqPc \in {"choice", "built", "sent"}

\* C14: with thinking enabled, tool-choice resolution never fails and never
\* yields a forced-tool or any-tool choice: tool mode Required resolves to
\* auto and every other mode leaves the choice unspecified, for any number
\* of tools.
C14_ThinkingNeverForcesTool ==
    (reqAdapter = "anthropic" /\ reqIn.thinkingEnabled /\ choiceRuns > 0) =>
        /\ reqError = None
        /\ reqPc # "failed"
        /\ toolChoice = IF reqIn.toolMode = "Required"
                        THEN Some([type |-> "auto"])
                        ELSE None

C14_Witness ==
    /\ ChoiceResolved
    /\ reqIn.thinkingEnabled
    /\ reqIn.toolMode = "Required"
    /\ reqTools = None
    /\ toolChoice = Some([type |-> "auto"])


\* C15: with thinking disabled and tool mode Required, the resolution yields
\* "force tool T by name" when the finalized tool list holds exactly the one
\* tool T, and "any tool" when it holds two or more tools.
C15_RequiredForcesOneOrAny ==
    (ChoiceResolved /\ ~reqIn.thinkingEnabled /\ reqIn.toolMode = "Required") =>
        /\ reqTools # None
        /\ Len(reqTools[1]) >= 1
        /\ Len(reqTools[1]) = 1 =>
               toolChoice = Some([type |-> "tool", name |-> reqTools[1][1].name])
        /\ Len(reqTools[1]) >= 2 => toolChoice = Some([type |-> "any"])

C15_Witness ==
    /\ ChoiceResolved
    /\ ~reqIn.thinkingEnabled
    /\ reqIn.toolMode = "Required"
    /\ reqIn.tools = <<"memory">>
    /\ reqTools = Some(<<MemoryTool>>)
    /\ toolChoice = Some([type |-> "tool", name |-> "memory"])

\* C16: tool-choice resolution runs exactly once per request, and the tool
\* list it inspects is exactly the tools list sent in the request, injected
\* native tools included: tool mode Required with no caller tool and one
\* injected native tool resolves as the one-tool case.
C16_ResolvedOnceOnFinalTools ==
    /\ reqAdapter = "anthropic" => choiceRuns <= 1
    /\ (reqAdapter = "anthropic" /\ reqPc = "sent") =>
        /\ choiceRuns = 1
        /\ choiceSaw = reqBody[1].tools
        /\ reqBody[1].tool_choice = toolChoice
        /\ (/\ reqIn.toolMode = "Required"
            /\ ~reqIn.thinkingEnabled
            /\ reqIn.tools = <<>>) =>
               /\ reqBody[1].tools = Some(<<WebSearchTool>>)
               /\ reqBody[1].tool_choice = Some([type |-> "tool", name |-> "web_search"])

C16_Witness ==
    /\ reqAdapter = "anthropic"
    /\ reqPc = "sent"
    /\ reqIn.toolMode = "Required"
    /\ ~reqIn.thinkingEnabled
    /\ reqIn.tools = <<>>
    /\ reqBody[1].tool_choice = Some([type |-> "tool", name |-> "web_search"])


\* the request was built or refused, and its final tool list holds no tool
NoToolsAfterConversion ==
    /\ reqPc \in {"built", "sent", "failed"}
    /\ reqIn.tools = <<>>
    /\ reqTools \in {None, Some(<<>>)}

\* C17: a request with tool mode Required and zero tools is rejected with a
\* fatal error raised before any network request is sent, in every adapter.
\* Stated for requests with thinking disabled, where no adapter is meant to
\* degrade Required to auto.
C17_RequiredWithoutToolsRejected ==
    (reqIn.toolMode = "Required" /\ ~reqIn.thinkingEnabled /\ NoToolsAfterConversion) =>
        /\ reqSent = 0
        /\ reqBody = None
        /\ reqError # None

\* the request asks for a thinking budget that its max output tokens do
\* not exceed
BudgetNotBelowMax ==
    /\ reqIn.thinkingEnabled
    /\ ~reqIn.gemini3ThinkingLevel
    /\ reqIn.budgetTokens # None
    /\ reqIn.maxOutputTokens # None
    /\ reqIn.budgetTokens[1] >= reqIn.maxOutputTokens[1]

\* C18: a request whose thinking budget is greater than or equal to its max
\* output tokens is rejected with a fatal error raised before any network
\* request is sent, in every adapter.
C18_BudgetNotBelowMaxRejected ==
    BudgetNotBelowMax =>
        /\ reqSent = 0
        /\ reqBody = None


\* the redacted-thinking block of the stream has been stopped
RedactedBlockStopped ==
    /\ curBlock # None
    /\ curBlock[1].type = "redacted_thinking"
    /\ curBlock[1].closed

\* the part is one a later request can turn back into a redacted_thinking
\* block with this data: a thinking part with metadata.redactedData, or a
\* data part with the payload
CarriesRedactedData(p, data) ==
    \/ /\ p.kind = "thinking"
       /\ p.metadata # None
       /\ "redactedData" \in DOMAIN p.metadata[1]
       /\ p.metadata[1].redactedData = data
    \/ /\ p.kind = "data"
       /\ p.data = data

\* C19: a redacted-thinking block received in a response is preserved for
\* follow-up turns: once the block has stopped, the adapter has emitted a
\* part carrying the block's opaque data.
C19_RedactedThinkingPartEmitted ==
    RedactedBlockStopped =>
        \E j \in (curBlock[1].partsBefore + 1)..Len(parts) :
            CarriesRedactedData(parts[j], curBlock[1].block.data)


\* the sequence lists every thinking part before every other part
ThinkingFirst(ps) ==
    \A j, k \in 1..Len(ps) :
        (isClaudeThinkingPart(ps[k]) /\ ~isClaudeThinkingPart(ps[j])) => k < j

\* C20: after thinking-order normalization every model-role content is a
\* stable partition of its original parts with thinking first: its thinking
\* parts precede every other part, the order inside each group is unchanged,
\* and the number and order of the contents is unchanged.
C20_StablePartitionThinkingFirst ==
    histPc = "done" =>
        /\ Len(contents) = Len(contentsIn)
        /\ \A k \in 1..Len(contents) :
            /\ contents[k].role = contentsIn[k].role
            /\ thinkingPartsOf(contents[k].parts) = thinkingPartsOf(contentsIn[k].parts)
            /\ otherPartsOf(contents[k].parts) = otherPartsOf(contentsIn[k].parts)
            /\ contents[k].role = "model" => ThinkingFirst(contents[k].parts)


(***************************************************************************)
(* Properties of request normalization, stated on maximal runs              *)
(***************************************************************************)
\* length of the maximal run of same-role messages that starts ms
RECURSIVE RunLength(_)
RunLength(ms) ==
    IF Len(ms) <= 1 THEN Len(ms)
    ELSE IF ms[2].role = ms[1].role THEN 1 + RunLength(Tail(ms))
    ELSE 1

\* the parts of the messages, concatenated in order
RECURSIVE ConcatContent(_)
ConcatContent(ms) ==
    IF ms = <<>> THEN <<>> ELSE ms[1].content \o ConcatContent(Tail(ms))

\* every maximal run replaced by one message
RECURSIVE RunsMerged(_)
RunsMerged(ms) ==
    IF ms = <<>> THEN <<>>
    ELSE LET k == RunLength(ms)
         IN  <<[role |-> ms[1].role, content |-> ConcatContent(SubSeq(ms, 1, k))]>>
                \o RunsMerged(SubSeq(ms, k + 1, Len(ms)))

\* C21: the normalized list is the input with every maximal run of
\* same-role messages replaced by one message holding the run's parts in
\* order, preceded by one synthetic user message with the single text part
\* "..." exactly when the first merged message is not a user message; an
\* empty input yields an empty output.
C21_RunsMergedSyntheticFirst ==
    normPc = "done" =>
        /\ messages = <<>> => result = <<>>
        /\ (messages # <<>> /\ messages[1].role = "user") =>
               result = RunsMerged(messages)
        /\ (messages # <<>> /\ messages[1].role # "user") =>
               result = <<[role |-> "user", content |-> <<[type |-> "text", text |-> "..."]>>]>>
                            \o RunsMerged(messages)
        /\ ConcatContent(result) =
               (IF messages # <<>> /\ messages[1].role # "user"
                THEN <<[type |-> "text", text |-> "..."]>> ELSE <<>>)
               \o ConcatContent(messages)

C21_Witness ==
    /\ normPc = "done"
    /\ Len(messages) = 4
    /\ messages[1].role = "assistant"
    /\ messages[2].role = "assistant"
    /\ messages[3].role = "user"
    /\ messages[4].role = "user"
    /\ Len(result) = 3
    /\ Len(result[2].content) = 2


\* the conversation starts with a system message that holds text
LeadingSystemContent ==
    /\ rawMessages # <<>>
    /\ rawMessages[1].role = "System"
    /\ extractContent(rawMessages[1]) # <<>>

\* C22: leading system content of the raw messages is extracted into the
\* separate system field of the request and is not lost: the system field of
\* the wire request carries it and the message list does not.
C22_LeadingSystemExtracted ==
    (convPc = "built" /\ LeadingSystemContent) =>
        /\ convBody[1].system = Some(extractContent(rawMessages[1]))
        /\ \A k \in 1..Len(convBody[1].messages) :
               convBody[1].messages[k].role \in {"user", "assistant"}


(***************************************************************************)
(* Properties of the stream decoders, stated on the lines of the body       *)
(***************************************************************************)
\* the complete lines of a body, carriage returns removed; text after the
\* last newline is not a line
RECURSIVE CompleteLines(_)
CompleteLines(w) ==
    IF NewlineIndex(w) = 0 THEN <<>>
    ELSE <<StripCR(SubSeq(w, 1, NewlineIndex(w) - 1))>>
            \o CompleteLines(SubSeq(w, NewlineIndex(w) + 1, Len(w)))

IsDataLine(line) == Len(line) > 0 /\ Head(line) = "D"

\* the payload of a data: line
DataOf(line) == TrimStart(Tail(line))

\* the payloads of the groups of data: lines, each group ended by a blank
\* line (or by the end of the lines), up to the [DONE] sentinel
RECURSIVE GroupPayloads(_, _)
GroupPayloads(lines, group) ==
    IF lines = <<>>
    THEN (IF group = <<>> \/ Trim(JoinLines(group)) = <<"E">> THEN <<>>
          ELSE <<Trim(JoinLines(group))>>)
    ELSE IF Head(lines) = <<>>
    THEN (IF group = <<>> THEN GroupPayloads(Tail(lines), <<>>)
          ELSE IF Trim(JoinLines(group)) = <<"E">> THEN <<>>
          ELSE <<Trim(JoinLines(group))>> \o GroupPayloads(Tail(lines), <<>>))
    ELSE IF IsDataLine(Head(lines))
    THEN GroupPayloads(Tail(lines), Append(group, DataOf(Head(lines))))
    ELSE GroupPayloads(Tail(lines), group)

\* the JSON values of the payloads that are JSON texts, in order
RECURSIVE JsonOfPayloads(_)
JsonOfPayloads(ps) ==
    IF ps = <<>> THEN <<>>
    ELSE LET v == JSONparse(SelectSeq(Head(ps), IsJsonToken))
         IN  (IF v = None THEN <<>> ELSE <<v[1]>>) \o JsonOfPayloads(Tail(ps))

\* every group of data: lines of the body is ended by a blank line
RECURSIVE GroupsTerminated(_, _)
GroupsTerminated(lines, open) ==
    IF lines = <<>> THEN ~open
    ELSE IF Head(lines) = <<>> THEN GroupsTerminated(Tail(lines), FALSE)
    ELSE GroupsTerminated(Tail(lines), open \/ IsDataLine(Head(lines)))

\* a body all of whose lines are complete and all of whose groups are ended
WellFramed(w) ==
    /\ (w = <<>> \/ w[Len(w)] = "N")
    /\ GroupsTerminated(CompleteLines(w), FALSE)

IsNotEmptyEvent(e) == e # EmptyEvent

EventsOfJson(vs) == [j \in 1..Len(vs) |-> EventOfJson(vs[j])]

\* C23: the decoder emits exactly one event per blank-line-terminated group
\* of data: lines, with the group's lines (prefix removed) joined in order as
\* payload, so a payload spread over several data: lines is one event; the
\* Antigravity decoder and the Anthropic parser do so alike. Empty no-op
\* events are not counted.
C23_OneEventPerDataGroup ==
    /\ (decPc = "done" /\ ~abortSet /\ WellFramed(wireIn)) =>
          SelectSeq(decEvents, IsNotEmptyEvent)
            = SelectSeq(EventsOfJson(JsonOfPayloads(GroupPayloads(CompleteLines(wireIn), <<>>))),
                        IsNotEmptyEvent)
    /\ (linPc = "done" /\ ~linCancelled /\ WellFramed(linWireIn)) =>
          linEvents = JsonOfPayloads(GroupPayloads(CompleteLines(linWireIn), <<>>))


\* the events the Antigravity decoder yields for a body delivered whole
WholeBodyEvents(w) == TailScan(w, <<>>, <<>>)

\* the events the Anthropic parser hands on for the complete lines of a body
RECURSIVE LineEventsOf(_)
LineEventsOf(w) ==
    IF NewlineIndex(w) = 0 THEN <<>>
    ELSE IF LineSkipped(FirstLine(w)) THEN LineEventsOf(AfterFirstLine(w))
    ELSE IF LineData(FirstLine(w)) = <<"E">> THEN <<>>
    ELSE IF LineJson(FirstLine(w)) = None THEN LineEventsOf(AfterFirstLine(w))
    ELSE <<LineJson(FirstLine(w))[1]>> \o LineEventsOf(AfterFirstLine(w))

\* C24: the sequence of events the decoder yields for a response body is the
\* same for every way of splitting the body into chunks, splits in the
\* middle of a line included: when the stream has ended the events are those
\* of the body delivered whole, and while it is read the events yielded so
\* far followed by the events of the text still to be handled are those
\* events too.
C24_ChunkSplitInvariant ==
    /\ (decPc = "done" /\ ~abortSet) => decEvents = WholeBodyEvents(wireIn)
    /\ (decPc \in {"top", "reading", "scan", "yielded"} /\ ~abortSet) =>
          TailScan(buffer \o wire, dataLines, decEvents) = WholeBodyEvents(wireIn)
    /\ (linPc = "done" /\ ~linCancelled) => linEvents = LineEventsOf(linWireIn)
    /\ (linPc \in {"top", "reading", "lines"} /\ ~linCancelled) =>
          linEvents \o LineEventsOf(linBuffer \o linWire) = LineEventsOf(linWireIn)

\* a chunk ended in the middle of a data: line after an event was yielded
C24_Witness ==
    /\ decPc = "reading"
    /\ ~abortSet
    /\ buffer = <<"D", " ", "{">>
    /\ Len(decEvents) >= 1
    /\ Len(wire) > 0


\* the body ends with a data: line that carries a JSON payload and has no
\* newline after it, directly after a blank line or at the start of the body
EndsWithUnterminatedData(w) ==
    /\ Len(w) >= Len(DataJson)
    /\ SubSeq(w, Len(w) - Len(DataJson) + 1, Len(w)) = DataJson
    /\ LET before == SubSeq(w, 1, Len(w) - Len(DataJson))
       IN  \/ before = <<>>
           \/ (Len(before) >= 2 /\ SubSeq(before, Len(before) - 1, Len(before)) = <<"N", "N">>)
    /\ \A j \in 1..Len(w) : w[j] # "E"

\* C25: when the stream ends while the buffer still holds a line without a
\* newline, that line is processed and flushed as a final event: a last
\* data: payload that lacks its trailing newline still yields its event.
C25_ResidualLineFlushed ==
    /\ (decPc = "done" /\ ~abortSet /\ EndsWithUnterminatedData(wireIn)) =>
          /\ decEvents # <<>>
          /\ decEvents[Len(decEvents)] = EventOfJson(JSONparse(<<"{", "k", "1", "}">>)[1])
    /\ (linPc = "done" /\ ~linCancelled /\ EndsWithUnterminatedData(linWireIn)) =>
          /\ linEvents # <<>>
          /\ linEvents[Len(linEvents)] = JSONparse(<<"{", "k", "1", "}">>)[1]


\* the number of blank lines before the group whose payload is the [DONE]
\* sentinel, None when the lines hold no such group
RECURSIVE SentinelAfter(_, _, _)
SentinelAfter(lines, group, n) ==
    IF lines = <<>>
    THEN (IF group # <<>> /\ Trim(JoinLines(group)) = <<"E">> THEN Some(n) ELSE None)
    ELSE IF Head(lines) = <<>>
    THEN (IF group # <<>> /\ Trim(JoinLines(group)) = <<"E">> THEN Some(n)
          ELSE SentinelAfter(Tail(lines), <<>>, n + 1))
    ELSE IF IsDataLine(Head(lines))
    THEN SentinelAfter(Tail(lines), Append(group, DataOf(Head(lines))), n)
    ELSE SentinelAfter(Tail(lines), group, n)

\* the number of data: lines with a JSON payload before the first data: line
\* whose payload is the sentinel, None when there is no such line
RECURSIVE LineSentinelAfter(_, _)
LineSentinelAfter(w, n) ==
    IF NewlineIndex(w) = 0 THEN None
    ELSE IF LineSkipped(FirstLine(w)) THEN LineSentinelAfter(AfterFirstLine(w), n)
    ELSE IF LineData(FirstLine(w)) = <<"E">> THEN Some(n)
    ELSE IF LineJson(FirstLine(w)) = None THEN LineSentinelAfter(AfterFirstLine(w), n)
    ELSE LineSentinelAfter(AfterFirstLine(w), n + 1)

\* C26: after the decoder meets a payload equal to the sentinel [DONE] it
\* yields no further event, whatever follows in the body: the events are
\* never more than those that precede the sentinel, and are exactly those
\* when the decoder has returned. A stream aborted before the sentinel was
\* read is left out.
C26_NothingAfterSentinel ==
    /\ LET k == SentinelAfter(CompleteLines(wireIn), <<>>, 0)
       IN  (k # None /\ ~abortSet) =>
             /\ Len(decEvents) <= k[1]
             /\ decPc = "done" => Len(decEvents) = k[1]
    /\ LET k == LineSentinelAfter(linWireIn, 0)
       IN  k # None =>
             /\ Len(linEvents) <= k[1]
             /\ (linPc = "done" /\ ~linCancelled) => Len(linEvents) = k[1]

\* the decoder returned at the sentinel with a data: line still undelivered
C26_Witness ==
    /\ decPc = "done"
    /\ ~abortSet
    /\ wireIn = JoinWire(<<DataDone, BlankLine, DataJson>>)
    /\ buffer \o wire = JoinWire(<<DataJson>>)
    /\ decEvents = <<>>


\* the payloads of the data: lines of a body, each line by itself, up to the
\* line whose payload is the sentinel
RECURSIVE LinePayloads(_)
LinePayloads(lines) ==
    IF lines = <<>> THEN <<>>
    ELSE IF ~IsDataLine(Trim(Head(lines))) THEN LinePayloads(Tail(lines))
    ELSE IF Trim(DataOf(Trim(Head(lines)))) = <<"E">> THEN <<>>
    ELSE <<Trim(DataOf(Trim(Head(lines))))>> \o LinePayloads(Tail(lines))

\* C27: a payload that is not valid JSON never raises an error and never
\* ends the stream: it yields at most an empty event, and every well-formed
\* payload of the body is decoded as if the malformed ones were not there.
C27_MalformedPayloadSkipped ==
    /\ (decPc = "done" /\ ~abortSet) =>
          /\ SelectSeq(decEvents, IsNotEmptyEvent)
               = SelectSeq(EventsOfJson(JsonOfPayloads(GroupPayloads(CompleteLines(wireIn), <<>>))),
                           IsNotEmptyEvent)
          /\ SentinelAfter(CompleteLines(wireIn), <<>>, 0) = None =>
                Len(decEvents) = Len(SelectSeq(CompleteLines(wireIn), LAMBDA l : l = <<>>)) + 1
    /\ (linPc = "done" /\ ~linCancelled) =>
          linEvents = JsonOfPayloads(LinePayloads(CompleteLines(linWireIn)))

\* a malformed payload was followed by a well-formed one
C27_Witness ==
    /\ decPc = "done"
    /\ ~abortSet
    /\ wireIn = JoinWire(<<DataOpen, BlankLine, DataJson>>)
    /\ decEvents = <<EmptyEvent, EventOfJson(JSONparse(<<"{", "k", "1", "}">>)[1])>>


(***************************************************************************)
(* Properties of the backoff delay                                          *)
(***************************************************************************)
\* c = min(maxDelay, initialDelay * multiplier^a)
StatedCap(config, a) ==
    LET e == config.initialDelayMs * Pow(config.backoffMultiplier, a)
    IN  IF e <= config.maxDelayMs THEN e ELSE config.maxDelayMs

RECURSIVE RequiredDeclared(_)
\* every required name is a key of properties, at this object level and at
\* the level of every property's schema
RequiredDeclared(schema) ==
    IF ~isRecord(schema) THEN TRUE
    ELSE /\ RequiredNamesOf(schema) \subseteq PropertyNamesOf(schema)
         /\ \A n \in PropertyNamesOf(schema) :
                RequiredDeclared(schema.v["properties"].v[n])

\* C29: in every tool parameter schema sent to the backend, each entry of
\* required names a key of the accompanying properties map, at the root and
\* at every nested object level, for every input schema (including one that
\* has a required list but no properties).
C29_RequiredNamesDeclared ==
    toolParams # None => RequiredDeclared(toolParams[1])

SanitizedDeclaresNothing ==
    /\ schemaOut # None
    /\ IF isRecord(schemaOut[1]) THEN PropertyNamesOf(schemaOut[1]) = {} ELSE TRUE

\* C30: every tool parameter schema sent to the backend has type object and
\* a non-empty properties map; when the sanitized schema declares no
\* properties, a boolean placeholder property is injected and listed in
\* required.
C30_ObjectWithPropertiesOrPlaceholder ==
    toolParams # None =>
        /\ isRecord(toolParams[1])
        /\ Has(toolParams[1].v, "type")
        /\ toolParams[1].v["type"] = Str("object")
        /\ Has(toolParams[1].v, "properties")
        /\ isRecord(toolParams[1].v["properties"])
        /\ PropertyNamesOf(toolParams[1]) # {}
        /\ SanitizedDeclaresNothing =>
              /\ PropertyNamesOf(toolParams[1]) = {EMPTY_TOOL_SCHEMA_PLACEHOLDER_NAME}
              /\ toolParams[1].v["properties"].v[EMPTY_TOOL_SCHEMA_PLACEHOLDER_NAME].v["type"]
                    = Str("boolean")
              /\ EMPTY_TOOL_SCHEMA_PLACEHOLDER_NAME \in RequiredNamesOf(toolParams[1])

\* a schema whose sanitized form declares no properties has been normalized
C30_Witness ==
    /\ toolParams # None
    /\ SanitizedDeclaresNothing
    /\ isRecord(schemaIn)
    /\ EMPTY_TOOL_SCHEMA_PLACEHOLDER_NAME \in PropertyNamesOf(toolParams[1])

(***************************************************************************)
(* Properties of the tool names on the wire                                 *)
(***************************************************************************)
\* the backend identifier grammar
MatchesIdentifierGrammar(name) ==
    /\ Len(name) >= 1
    /\ Len(name) <= 64
    /\ \A i \in DOMAIN name : name[i] \in {"a", "1", "_", "."}
    /\ name[1] \in {"a", "_"}

\* C31: every tool name placed in a wire request matches the backend
\* identifier grammar (letters, digits, _ . : -, first character a letter or
\* underscore, length 1..64), for every input name including empty, overlong
\* and non-ASCII names.
C31_WireToolNameMatchesGrammar ==
    tnWire # None => MatchesIdentifierGrammar(tnWire[1])

\* the same, for the names the Antigravity adapter sends
AntigravityNameMatchesGrammar ==
    (tnWire # None /\ tnAdapter = "antigravity") => MatchesIdentifierGrammar(tnWire[1])

(***************************************************************************)
(* Properties of the cache-control markers                                  *)
(***************************************************************************)
\* the block kinds that cannot carry a cache-control hint
SupportsHint(block) ==
    block.type \notin {"thinking", "redacted_thinking", "server_tool_use",
                       "web_search_tool_result"}

\* the marker rule: the hint goes on the immediately preceding block if one
\* exists and supports it, and otherwise one text block is added that
\* carries the hint and whose text is not the empty string
MarkerRule(before, after) ==
    IF Len(before) > 0 /\ SupportsHint(before[Len(before)])
    THEN after = [before EXCEPT ![Len(before)].cache_control = TRUE]
    ELSE /\ Len(after) = Len(before) + 1
         /\ SubSeq(after, 1, Len(before)) = before
         /\ after[Len(after)].type = "text"
         /\ after[Len(after)].cache_control
         /\ after[Len(after)].text # ""

\* a marker adds one text block that carries the hint, with a non-empty text
PlaceholderRule(before, after) ==
    /\ Len(after) = Len(before) + 1
    /\ SubSeq(after, 1, Len(before)) = before
    /\ after[Len(after)].type = "text"
    /\ after[Len(after)].cache_control
    /\ after[Len(after)].text # ""

LastPartHandled == ccParts[ccPos]

MessageMarkerHandled ==
    /\ ccPos > 0
    /\ LastPartHandled.kind = "data"
    /\ LastPartHandled.value = "cache_control"

ToolResultHandled ==
    /\ ccPos > 0
    /\ LastPartHandled.kind = "tool_result"

\* the inner blocks after the first k parts of a tool result's content
InnerBlocksAfter(k) == extractToolResultContent(SubSeq(LastPartHandled.value, 1, k))

NoEmptyTextBlock ==
    \A i \in 1..Len(ccBlocks) :
        /\ ccBlocks[i].type = "text" => ccBlocks[i].text # ""
        /\ \A j \in 1..Len(ccBlocks[i].content) :
               ccBlocks[i].content[j].type = "text" => ccBlocks[i].content[j].text # ""

Occurs(v, s) ==
    \E a \in 0..Len(s) : \E b \in a..Len(s) : SubSeq(s, a + 1, b) = v

ListOf(list) == IF list = None THEN <<>> ELSE list[1]

SomeCheckerTrue == \E i \in DOMAIN ListOf(ftFeature[1].customCheckers) :
                       ListOf(ftFeature[1].customCheckers)[i]

SomePatternMatches == \E i \in DOMAIN ListOf(ftFeature[1].supportedProviders) :
                          matchProviderPattern(ftBaseUrl, ListOf(ftFeature[1].supportedProviders)[i])

SomeModelIdOccurs == \E i \in DOMAIN ListOf(ftFeature[1].supportedModels) :
                         Occurs(ListOf(ftFeature[1].supportedModels)[i], ftModel.baseId)

SomeFamilyOccurs ==
    /\ ftModel.family # None
    /\ \E i \in DOMAIN ListOf(ftFeature[1].supportedFamilys) :
           Occurs(ListOf(ftFeature[1].supportedFamilys)[i], ftModel.family[1])

EffectiveFamily == IF ftModel.family # None THEN ftModel.family[1] ELSE ftModel.baseId

FirstFinalPage == CHOOSE k \in 1..Len(lmPages) :
                     /\ ~lmPages[k].has_more
                     /\ \A j \in 1..(k - 1) : lmPages[j].has_more

\* the server answers every request up to that page, and each page that
\* announces more carries the last_id the next request is to quote
PagesServed ==
    /\ \A j \in 1..FirstFinalPage : lmPages[j].ok
    /\ \A j \in 1..(FirstFinalPage - 1) : lmPages[j].last_id # None

RECURSIVE ModelsOfPages(_)
ModelsOfPages(k) == IF k = 0 THEN <<>> ELSE ModelsOfPages(k - 1) \o lmPages[k].data

RECURSIVE RunAlone(_)
\* the locals of a call that has handled the events es with no other request
\* in flight
RunAlone(es) ==
    IF Len(es) = 0 THEN NewLocals
    ELSE handleToolEvent(RunAlone(SubSeq(es, 1, Len(es) - 1)), es[Len(es)])

\* every accumulator entry and every yielded part of request r is its own
OwnEntriesOnly(r) ==
    /\ cqLocals[r].currentToolCall # None =>
           /\ cqLocals[r].currentToolCall[1].id = r
           /\ \A i \in DOMAIN cqLocals[r].currentToolCall[1].inputJson :
                  cqLocals[r].currentToolCall[1].inputJson[i] = r
    /\ \A k \in DOMAIN cqLocals[r].yielded :
           /\ cqLocals[r].yielded[k].id = r
           /\ \A i \in DOMAIN cqLocals[r].yielded[k].inputJson :
                  cqLocals[r].yielded[k].inputJson[i] = r

\* C36: two chat requests in flight at the same time share no mutable
\* decoder or accumulator state: under every interleaving of their chunk
\* arrivals each request has yielded exactly the parts, and holds exactly
\* the accumulator, it would when run alone, and no accumulator entry of one
\* response is visible in another.
C36_RequestsDoNotInterfere ==
    \A r \in ChatRequests :
        cqPc[r] = "streaming" =>
            /\ cqLocals[r] = RunAlone(SubSeq(cqWire[r], 1, cqPos[r]))
            /\ OwnEntriesOnly(r)

\* request 2 has yielded a tool call that it started while the tool call of
\* request 1 was being accumulated, and request 1 is still accumulating
C36_Witness ==
    /\ cqPc[1] = "streaming"
    /\ cqPc[2] = "streaming"
    /\ cqLocals[1].currentToolCall # None
    /\ Len(cqLocals[1].currentToolCall[1].inputJson) = 1
    /\ Len(cqLocals[2].yielded) = 1
    /\ Len(cqLocals[2].yielded[1].inputJson) = 1
    /\ cqPos[1] = 2
    /\ cqPos[2] = 3

(***************************************************************************)
(* Properties of the cancellation listener                                  *)
(***************************************************************************)
\* C37: every cancellation listener registered by streamChat is disposed on
\* every way the call can end: normal completion, HTTP error, cancellation,
\* the consumer stopping early, and an error raised while the request is
\* still being built.
C37_ListenerDisposedOnEveryEnd ==
    lsPc \in {"returned", "threw"} => lsListeners = 0

\* the same, for the calls that got as far as the try block
ListenerDisposedAfterTry ==
    (lsPc \in {"returned", "threw"} /\ lsBuild = "ok") => lsListeners = 0

(***************************************************************************)
(* Properties of the Copilot tool-call indices                              *)
(***************************************************************************)
\* the tool-call deltas accumulated so far: chunk number and place in it
AccumulatedCalls ==
    {c \in (1..ixPos) \X (1..MaxChunkCalls) : c[2] <= Len(ixStream[c[1]])}

ZeroAppears == \E c \in AccumulatedCalls : ixStream[c[1]][c[2]] = 0

\* C38: across the chunks of one stream each upstream tool-call index is
\* mapped to the same normalized index in every chunk, two distinct upstream
\* indices never map to the same normalized index, and a stream in which
\* index 0 appears has the indices of all its chunks left unchanged.
C38_IndexNormalizationConsistent ==
    /\ \A c, d \in AccumulatedCalls :
           (ixStream[c[1]][c[2]] = ixStream[d[1]][d[2]])
               <=> (ixNormalized[c[1]][c[2]] = ixNormalized[d[1]][d[2]])
    /\ (ixPos = Len(ixStream) /\ ZeroAppears) =>
           \A k \in 1..ixPos : ixNormalized[k] = ixStream[k]

\* within one chunk the mapping is consistent and one-to-one, and a chunk
\* in which index 0 appears is left unchanged
NormalizationConsistentPerChunk ==
    \A k \in 1..ixPos :
        /\ \A i, j \in DOMAIN ixStream[k] :
               (ixStream[k][i] = ixStream[k][j]) <=> (ixNormalized[k][i] = ixNormalized[k][j])
        /\ (\E i \in DOMAIN ixStream[k] : ixStream[k][i] = 0) => ixNormalized[k] = ixStream[k]

====
